---- MODULE Spec2Model ----
(***************************************************************************)
(* Recursive proof composition of src/recursion.rs: RecursiveProof         *)
(* (create_proof, verify_inner, verify) and the parts of                   *)
(* VerificationCircuit::synthesize that allocate the public inputs, embed  *)
(* the previous proof and recompute the k-commitment.                      *)
(*                                                                         *)
(* Curves are "A" and "B".  A chain alternates: proof 1 is a               *)
(* RecursiveProof<A,B>, proof 2 a RecursiveProof<B,A>, and so on.          *)
(* Bits are 0/1.  A field element is a natural number; a curve point of    *)
(* the generator vector is its index, and a sum of generators is the set   *)
(* of the indices added (every generator is added at most once).           *)
(***************************************************************************)
EXTENDS Integers, Naturals, Sequences, FiniteSets, TLC

\* ------------------------------------------------------------------ bounds
\* longest chain of proofs built
MaxChain == 3
\* longest payload, in bytes
MaxPayloadBytes == 1
\* largest size parameter k of a parameter set
MaxK == 3
\* longest bit vector handed to a gadget on its own
MaxBits == 3
\* largest value of the first field of a deferred buffer
MaxSeed == 20

\* ------------------------------------------------------ program constants
\* width of one serialised field element in bits (the 256 of the source)
FieldBits == 256
FieldBytes == FieldBits \div 8

Curves == {"A", "B"}
Other(c) == IF c = "A" THEN "B" ELSE "A"

\* smallest k verify_deferred accepts (nk = k - 2 on an unsigned integer)
MinK == 2
\* the k of a parameter set
Ks == MinK..MaxK

Min(a, b) == IF a < b THEN a ELSE b

RECURSIVE SumSeq(_)
SumSeq(s) == IF s = <<>> THEN 0 ELSE s[1] + SumSeq(Tail(s))

\* ------------------------------------------------ byte and bit vectors
\* A vector of bytes is [len, nz]: its length and the set of <<position,
\* value>> of its non-zero bytes (positions from 1).  A vector of bits is
\* [len, ones]: its length and the set of positions of its 1 bits.

Bytes(len, nz) == [len |-> len, nz |-> nz]
Bits(len, ones) == [len |-> len, ones |-> ones]

BitAt(bits, n) == IF n \in bits.ones THEN 1 ELSE 0

\* a Vec<u8> given as a sequence
BytesOfSeq(s) == Bytes(Len(s), {<<i, s[i]>> : i \in {j \in DOMAIN s : s[j] # 0}})

\* a.extend(b)
CatBytes(a, b) ==
  Bytes(a.len + b.len, a.nz \cup {<<a.len + x[1], x[2]>> : x \in b.nz})

CatBits(a, b) == Bits(a.len + b.len, a.ones \cup {a.len + n : n \in b.ones})

\* &bits[lo..hi]
SliceBits(bits, lo, hi) ==
  Bits(hi - lo, {n - lo : n \in {m \in bits.ones : m > lo /\ m <= hi}})

ZeroBits(n) == Bits(n, {})

\* byte j (from 0, little-endian) of the encoding of field element v; the
\* field elements of the model are below 2^24
ByteOfFe(v, j) == IF j < 3 THEN (v \div (256 ^ j)) % 256 ELSE 0

\* the concatenated fixed-width encodings of a sequence of field elements
FieldsToBytes(fs) ==
  Bytes(FieldBytes * Len(fs),
        UNION {{<<FieldBytes * (i - 1) + j + 1, ByteOfFe(fs[i], j)>> :
                  j \in {x \in 0..2 : ByteOfFe(fs[i], x) # 0}} : i \in DOMAIN fs})

\* Leftovers::to_bytes: s_new_commitment.x, .y, y_new, g_new.x, .y, challenges
LeftoversToBytes(l) == FieldsToBytes(l)

\* Deferred::to_bytes: the 16 + 2k fields in the order verify_deferred unpacks
DeferredToBytes(d) == FieldsToBytes(d)

\* (byte >> i) & 1
BitOfByte(byte, i) == (byte \div (2 ^ i)) % 2

\* for byte in bytes { for i in 0..8 { (byte >> i) & 1 == 1 } }: bit i of
\* byte j (from 0) is bit 8 * j + i
BitsOfBytes(bytes) ==
  Bits(8 * bytes.len,
       UNION {{8 * (x[1] - 1) + i + 1 : i \in {y \in 0..7 : BitOfByte(x[2], y) = 1}} :
                x \in bytes.nz})

\* Option<T>
None == [some |-> FALSE, v |-> <<>>]
Some(x) == [some |-> TRUE, v |-> x]

\* ------------------------------------------------- base proof system
\* (proofs.rs is outside src/: modelled from the interface of the
\*  specification.  A Leftovers is the sequence of its 5 + k fields, a
\*  Deferred the sequence of its 16 + 2k fields.)

\* Leftovers::dummy(params)
LeftoversDummy(p) ==
  [i \in 1..(5 + p.k) |-> IF i = 1 \/ i = 4 THEN 1 ELSE 0]

\* Deferred::dummy(k)
DeferredDummy(k) ==
  [i \in 1..(16 + 2 * k) |->
     IF i = 2 \/ i \in 11..(10 + k) THEN 1
     ELSE IF i = 11 + k THEN 1 + k
     ELSE 0]

LeftoversChallenges(l) == SubSeq(l, 6, Len(l))

\* Leftovers::verify(params, circuit): the accumulator is well formed for
\* the parameters and its commitments fit its challenges
LeftoversVerify(l, p) ==
  /\ Len(l) = 5 + p.k
  /\ l[1] = 1 + l[3]
  /\ l[4] = 1 + SumSeq(LeftoversChallenges(l))

\* Deferred::verify(k): the deferred values are consistent for size k
DeferredVerify(d, k) ==
  /\ Len(d) = 16 + 2 * k
  /\ d[11 + k] = 1 + d[1] + SumSeq(SubSeq(d, 11, 10 + k))

\* the accumulator a verification of a proof with transcript value t yields
FreshLeftovers(k, t) ==
  [i \in 1..(5 + k) |->
     IF i = 1 THEN 1 + t
     ELSE IF i = 3 THEN t
     ELSE IF i = 4 THEN 1 + k * t
     ELSE IF i > 5 THEN t
     ELSE 0]

\* the deferred values a verification with transcript value t yields when
\* it is given the accumulator acc
FreshDeferred(k, t, acc) ==
  LET old(i) == IF 5 + i <= Len(acc) THEN acc[5 + i] ELSE 0
      sumold == SumSeq([i \in 1..k |-> old(i)])
  IN [i \in 1..(16 + 2 * k) |->
        IF i = 1 THEN t
        ELSE IF i = 2 THEN (IF Len(acc) >= 3 THEN acc[3] ELSE 0)
        ELSE IF i \in 11..(10 + k) THEN old(i - 10)
        ELSE IF i = 11 + k THEN 1 + t + sumold
        ELSE 0]

\* the transcript value of a proof: a function of what was proved
Transcript(inputs) == 2 + (Cardinality(inputs.ones) % 5)

\* Proof::new(params, circuit, leftovers): the proof of a synthesised
\* circuit records the statement proved; sat says whether the witness
\* satisfied the constraints
ProofNew(p, shape, inputs, sat, acc) ==
  [params |-> p, shape |-> shape, inputs |-> inputs, sat |-> sat,
   acc |-> acc, t |-> Transcript(inputs)]

\* a verification that does not bind the proof to its public inputs
ProofVerifyUnbound(proof, acc, p, shape, bitinputs, k_commitment) ==
  [worked |-> proof.sat /\ proof.params = p /\ proof.shape = shape,
   leftovers |-> FreshLeftovers(p.k, proof.t),
   deferred |-> FreshDeferred(p.k, proof.t, acc)]

\* Proof::verify(leftovers, params, circuit, inputs, Some(k_commitment)) ->
\* (bool, Leftovers, Deferred)
ProofVerify(proof, acc, p, shape, bitinputs, k_commitment) ==
  [worked |-> /\ proof.sat
              /\ proof.params = p
              /\ proof.shape = shape
              /\ proof.inputs = bitinputs
              /\ proof.acc = acc
              /\ k_commitment = {1} \cup {n + 1 : n \in bitinputs.ones},
   leftovers |-> FreshLeftovers(p.k, proof.t),
   deferred |-> FreshDeferred(p.k, proof.t, acc)]

\* ------------------------------------------- VerificationCircuit::synthesize
\* A circuit is [params, base_case, proof, new_payload, old_leftovers,
\* new_leftovers, deferred]; the Option fields are None or Some(x).
\* bp is inner_circuit.base_payload().

VerificationCircuit(p, bc, proof, payload, oldl, newl, def) ==
  [params |-> p, base_case |-> bc, proof |-> proof, new_payload |-> payload,
   old_leftovers |-> oldl, new_leftovers |-> newl, deferred |-> def]

\* a placeholder one field short
BitsOrShortPlaceholder(opt, n) ==
  IF opt.some THEN BitsOfBytes(FieldsToBytes(opt.v)) ELSE ZeroBits(FieldBits * (n - 1))

\* the bits of an optional accumulator or deferred value: its bytes, or the
\* false-filled placeholder of n fields
BitsOrPlaceholder(opt, n) ==
  IF opt.some THEN BitsOfBytes(FieldsToBytes(opt.v)) ELSE ZeroBits(FieldBits * n)

SynthPayloadBits(circ) == BitsOfBytes(BytesOfSeq(circ.new_payload))
SynthLeftovers1(circ) == BitsOrPlaceholder(circ.old_leftovers, 5 + circ.params.k)
SynthLeftovers2(circ) == BitsOrPlaceholder(circ.new_leftovers, 5 + circ.params.k)
SynthDeferred(circ) == BitsOrPlaceholder(circ.deferred, 16 + 2 * circ.params.k)

\* the public inputs with the two accumulators in the other order
SynthInputsSwapped(circ) ==
  CatBits(CatBits(CatBits(SynthPayloadBits(circ), SynthLeftovers2(circ)),
                  SynthLeftovers1(circ)), SynthDeferred(circ))

\* the public inputs in the order synthesize allocates them
SynthInputs(circ) ==
  CatBits(CatBits(CatBits(SynthPayloadBits(circ), SynthLeftovers1(circ)),
                  SynthLeftovers2(circ)), SynthDeferred(circ))

\* the payload of the old proof, or the base payload
SynthOldPayload(circ, bp) ==
  IF circ.proof.some THEN BitsOfBytes(BytesOfSeq(circ.proof.v.payload)) ELSE bp

SynthOldLeftovers1(circ) ==
  IF circ.proof.some
  THEN BitsOfBytes(LeftoversToBytes(circ.proof.v.oldproof1))
  ELSE ZeroBits(FieldBits * (5 + circ.params.k))

SynthOldDeferred(circ) ==
  IF circ.proof.some
  THEN BitsOfBytes(DeferredToBytes(circ.proof.v.deferred))
  ELSE BitsOfBytes(DeferredToBytes(DeferredDummy(circ.params.k)))

\* the bits with the new_leftovers witness in place of old_leftovers
SynthBitsWithNewLeftovers(circ, bp) ==
  CatBits(CatBits(CatBits(SynthOldPayload(circ, bp), SynthOldLeftovers1(circ)),
                  SynthLeftovers2(circ)), SynthOldDeferred(circ))

\* bits_for_k_commitment: old_payload, old_leftovers1, leftovers1, old_deferred
SynthBitsForKCommitment(circ, bp) ==
  CatBits(CatBits(CatBits(SynthOldPayload(circ, bp), SynthOldLeftovers1(circ)),
                  SynthLeftovers1(circ)), SynthOldDeferred(circ))

\* generators_xy[1], then generator i + 2 added under bit i for the bits
\* zipped with generators_xy[2..]
SynthKCommitment(circ, bp) ==
  LET bits == SynthBitsForKCommitment(circ, bp)
      zipped == Min(bits.len, circ.params.ngens - 2)
  IN {1} \cup {n + 1 : n \in {m \in bits.ones : m <= zipped}}

\* a gate on 1 - base_case in place of base_case
BasePayloadGateInverted(bp, old, bc) ==
  \A i \in 1..Min(bp.len, old.len) : (BitAt(bp, i) - BitAt(old, i)) * (1 - bc) = 0

\* the constraints (bit - old_payload_bit) * base_case = 0 over
\* base_payload zipped with old_payload, under the values old and bc
BasePayloadGate(bp, old, bc) ==
  \A i \in 1..Min(bp.len, old.len) : (BitAt(bp, i) - BitAt(old, i)) * bc = 0

\* an equality that base_case does not gate
EqualAlways(bc, lhs, rhs) ==
  \A i \in {n \in lhs.ones \cup rhs.ones : n <= Min(lhs.len, rhs.len)} :
     BitAt(lhs, i) - BitAt(rhs, i) = 0

\* the constraints of equal_unless_base_case(lhs, rhs) under base_case bc,
\* one for each pair of lhs zipped with rhs; a pair of two 0 bits satisfies
\* its constraint, so only the pairs with a 1 bit are evaluated
EqualUnlessBaseCase(bc, lhs, rhs) ==
  \A i \in {n \in lhs.ones \cup rhs.ones : n <= Min(lhs.len, rhs.len)} :
     (BitAt(lhs, i) - BitAt(rhs, i)) * (1 - bc) = 0

\* width of a challenge in bits: the low half of its 256-bit field
ChallengeBits == 128

\* the challenge fields of new_leftovers without that of y_new
LeftoversChallengeFieldsOfRounds(k) == {5 + i : i \in 0..(k - 1)}

\* the fields (from 0) of new_leftovers that hold a challenge: y_new and
\* the k challenges of the inner product argument
LeftoversChallengeFields(k) == {2} \cup {5 + i : i \in 0..(k - 1)}

\* the fields (from 0) of new_deferred that hold a challenge: x, y_cur,
\* y_new and the k new challenges
DeferredChallengeFields(k) == {0, 2, 3} \cup {11 + k + i : i \in 0..(k - 1)}

\* cs.enforce_zero(bit) for each of the upper 128 bits of the given fields
UpperHalfZero(bits, fields) ==
  \A n \in bits.ones : \A f \in fields :
     ~(n > FieldBits * f + ChallengeBits /\ n <= FieldBits * (f + 1))

\* verify_proof: the constraints on the public-input bits that base_case
\* does not gate
VerifyProofZeroed(k, new_deferred, new_leftovers) ==
  /\ UpperHalfZero(new_leftovers, LeftoversChallengeFields(k))
  /\ UpperHalfZero(new_deferred, DeferredChallengeFields(k))

\* the values verify_proof derives from the embedded proof: the unpacked
\* coordinates of s_new_commitment and g_new (256 bits each) and the
\* challenges x, y_cur, y_new and challenges_new[i] (128 bits each)
Derived(sx, sy, gx, gy, x, y_cur, y_new, challenges_new) ==
  [sx |-> sx, sy |-> sy, gx |-> gx, gy |-> gy, x |-> x, y_cur |-> y_cur,
   y_new |-> y_new, challenges_new |-> challenges_new]

\* the same comparisons with no gate
VerifyProofEqualAlways(bc, k, d, new_deferred, new_leftovers) ==
  /\ d.sx = SliceBits(new_leftovers, 0, FieldBits)
  /\ d.sy = SliceBits(new_leftovers, FieldBits, FieldBits * 2)
  /\ d.y_new = SliceBits(new_leftovers, FieldBits * 2, FieldBits * 2 + ChallengeBits)
  /\ d.x = SliceBits(new_deferred, 0, ChallengeBits)

\* verify_proof: the comparisons of the derived values with the
\* public-input bits, each through equal_unless_base_case
VerifyProofGated(bc, k, d, new_deferred, new_leftovers) ==
  /\ EqualUnlessBaseCase(bc, d.sx, SliceBits(new_leftovers, 0, FieldBits))
  /\ EqualUnlessBaseCase(bc, d.sy, SliceBits(new_leftovers, FieldBits, FieldBits * 2))
  /\ EqualUnlessBaseCase(bc, d.y_new,
        SliceBits(new_leftovers, FieldBits * 2, FieldBits * 2 + ChallengeBits))
  /\ EqualUnlessBaseCase(bc, d.gx,
        SliceBits(new_leftovers, FieldBits * 3, FieldBits * 4))
  /\ EqualUnlessBaseCase(bc, d.gy,
        SliceBits(new_leftovers, FieldBits * 4, FieldBits * 5))
  /\ \A i \in 0..(k - 1) :
        /\ EqualUnlessBaseCase(bc, d.challenges_new[i + 1],
              SliceBits(new_leftovers, FieldBits * (5 + i),
                        FieldBits * (5 + i) + ChallengeBits))
        /\ EqualUnlessBaseCase(bc, d.challenges_new[i + 1],
              SliceBits(new_deferred, FieldBits * (11 + k + i),
                        FieldBits * (11 + k + i) + ChallengeBits))
  /\ EqualUnlessBaseCase(bc, d.x, SliceBits(new_deferred, 0, ChallengeBits))
  /\ EqualUnlessBaseCase(bc, d.y_cur,
        SliceBits(new_deferred, FieldBits * 2, FieldBits * 2 + ChallengeBits))
  /\ EqualUnlessBaseCase(bc, d.y_new,
        SliceBits(new_deferred, FieldBits * 3, FieldBits * 3 + ChallengeBits))

\* ------------------------------------------------------ field arithmetic
\* The scalar field of a curve is a prime field; the model computes in the
\* prime field of this modulus, whose elements still take the 256 bits of
\* an encoded field element.
FieldModulus == 32749

FAdd(a, b) == (a + b) % FieldModulus
FSub(a, b) == (a - b + FieldModulus) % FieldModulus
FMul(a, b) == (a * b) % FieldModulus

\* a to the power n, by squaring
RECURSIVE FPow(_, _)
FPow(a, n) ==
  IF n = 0 THEN 1
  ELSE LET h == FPow(a, n \div 2)
       IN IF n % 2 = 0 THEN FMul(h, h) ELSE FMul(FMul(h, h), a)

\* the inverse of a non-zero element
FInv(a) == FPow(a, FieldModulus - 2)

\* the product of a sequence of elements
RECURSIVE FProd(_)
FProd(s) == IF s = <<>> THEN 1 ELSE FMul(s[1], FProd(Tail(s)))

\* a recursion that hands x itself, not its square, to the next level
RECURSIVE ComputeBWithoutSquaring(_, _, _)
ComputeBWithoutSquaring(x, challenges, challenges_inv) ==
  LET n == Len(challenges)
      tmp == FAdd(challenges_inv[n], FMul(x, challenges[n]))
  IN IF n = 1
     THEN [value |-> tmp, calls |-> 1, squarings |-> 0]
     ELSE LET r == ComputeBWithoutSquaring(x, SubSeq(challenges, 1, n - 1),
                                           SubSeq(challenges_inv, 1, n - 1))
          IN [value |-> FMul(r.value, tmp), calls |-> r.calls + 1,
              squarings |-> r.squarings]

\* a recursion that takes the first challenge at each level
RECURSIVE ComputeBFromFirst(_, _, _)
ComputeBFromFirst(x, challenges, challenges_inv) ==
  LET tmp == FAdd(challenges_inv[1], FMul(x, challenges[1]))
  IN IF Len(challenges) = 1
     THEN [value |-> tmp, calls |-> 1, squarings |-> 0]
     ELSE LET x2 == FMul(x, x)
              r == ComputeBFromFirst(x2, Tail(challenges), Tail(challenges_inv))
          IN [value |-> FMul(r.value, tmp), calls |-> r.calls + 1,
              squarings |-> r.squarings + 1]

\* compute_b(cs, x, challenges, challenges_inv) for challenges.len() >= 1
\* and as many inverses: the value returned, the calls of compute_b made
\* and the squarings x.mul(&x) among its multiplications
RECURSIVE ComputeB(_, _, _)
ComputeB(x, challenges, challenges_inv) ==
  LET n == Len(challenges)
      tmp == FAdd(challenges_inv[n], FMul(x, challenges[n]))
  IN IF n = 1
     THEN [value |-> tmp, calls |-> 1, squarings |-> 0]
     ELSE LET x2 == FMul(x, x)
              r == ComputeB(x2, SubSeq(challenges, 1, n - 1),
                            SubSeq(challenges_inv, 1, n - 1))
          IN [value |-> FMul(r.value, tmp), calls |-> r.calls + 1,
              squarings |-> r.squarings + 1]

\* the sum in the field of 2^(n - 1 + shift) over the positions n of a set
RECURSIVE SumOfPowers(_, _)
SumOfPowers(ones, shift) ==
  IF ones = {} THEN 0
  ELSE LET n == CHOOSE m \in ones : TRUE
       IN FAdd(FPow(2, n - 1 + shift), SumOfPowers(ones \ {n}, shift))

\* a sum whose cur starts at 2
ObtainScalarFromDoubled(bits) ==
  IF bits.len # FieldBits THEN [outcome |-> "panic", value |-> 0]
  ELSE [outcome |-> "ok", value |-> SumOfPowers(bits.ones, 1)]

\* obtain_scalar_from_bits(cs, bits): bits.len() must be 256; cur starts at
\* one() and doubles in the field after every bit, and value collects cur
\* under the bits that are 1
ObtainScalarFromBits(bits) ==
  IF bits.len # FieldBits THEN [outcome |-> "panic", value |-> 0]
  ELSE [outcome |-> "ok", value |-> SumOfPowers(bits.ones, 0)]

\* witness_bits_from_fe(cs, value): the bits of value.to_bytes(), each byte
\* from its lowest bit
WitnessBitsFromFe(v) == BitsOfBytes(FieldsToBytes(<<v>>))

\* a gate whose b wire carries base_case itself
GateOnBaseCase(lhs, rhs, bc) == FMul(FSub(lhs, rhs), bc) = 0

\* the gate (a, b, c) of cs.multiply, a * b = c, under the three linear
\* constraints a - lhs + rhs = 0, b - 1 + base_case = 0 and c = 0: the
\* wires a and b are forced, and the gate holds when their product is c
GateSatisfiable(lhs, rhs, bc) ==
  LET a == FSub(lhs, rhs)
      b == FSub(1, bc)
      c == 0
  IN FMul(a, b) = c

\* equal_unless_base_case: the multiplication gates emitted, one for each
\* pair of lhs.iter().zip(rhs.iter()), as the <<lhs bit, rhs bit>> on it
EqualGates(lhs, rhs) == [i \in 1..Min(Len(lhs), Len(rhs)) |-> <<lhs[i], rhs[i]>>]

\* equal_unless_base_case on two sequences of bits: the assertion on the
\* lengths, the gates, and whether the constraints can be satisfied
EqualUnlessBaseCaseBits(bc, lhs, rhs) ==
  IF Len(lhs) # Len(rhs)
  THEN [outcome |-> "panic", gates |-> 0]
  ELSE LET g == EqualGates(lhs, rhs)
       IN [outcome |-> IF \A i \in DOMAIN g : GateSatisfiable(g[i][1], g[i][2], bc)
                       THEN "sat" ELSE "unsat",
           gates |-> Len(g)]

\* num_equal_unless_base_case on two field elements: one gate
NumEqualUnlessBaseCase(bc, lhs, rhs) ==
  [outcome |-> IF GateSatisfiable(lhs, rhs, bc) THEN "sat" ELSE "unsat",
   gates |-> 1]

\* the slices and assertions of synthesize that abort it
SynthPanics(circ, bp) ==
  LET k == circ.params.k
  IN \/ circ.params.ngens < 2
     \/ SynthOldDeferred(circ).len # FieldBits * (16 + 2 * k)
     \/ SynthDeferred(circ).len < FieldBits * (16 + 2 * k)
     \/ SynthLeftovers2(circ).len < FieldBits * (5 + k)
     \/ SynthOldLeftovers1(circ).len # FieldBits * (5 + k)

\* the number of variables of each group synthesize allocates, with the
\* parameters its constants and loop bounds come from
SynthShape(circ, bp) ==
  [params |-> circ.params,
   inputs |-> <<SynthPayloadBits(circ).len, SynthLeftovers1(circ).len,
                SynthLeftovers2(circ).len, SynthDeferred(circ).len>>,
   aux |-> <<SynthOldPayload(circ, bp).len, SynthOldLeftovers1(circ).len,
             SynthOldDeferred(circ).len>>]

\* commit_point: absorb x, absorb y
Commit == <<"absorb", "absorb">>

RECURSIVE Repeat(_, _)
Repeat(s, n) == IF n = 0 THEN <<>> ELSE s \o Repeat(s, n - 1)

\* the calls verify_proof and verify_inner_product make on the transcript:
\* k_commitment, r, y_cur; s_cur, t_positive, t_negative, x; c, y_new;
\* s_new and the nine openings, z; then in each of the k rounds L, R, l, r
\* of the five instances and the round challenge
TranscriptCalls(k) ==
  Repeat(Commit, 2) \o <<"squeeze">> \o Repeat(Commit, 3) \o <<"squeeze">>
    \o Commit \o <<"squeeze">> \o Repeat(Commit, 10) \o <<"squeeze">>
    \o Repeat(Repeat(Commit, 20) \o <<"squeeze">>, k)

\* unpack_fe(cs, num): the 256 bits of the little-endian encoding of num,
\* each byte from its lowest bit
UnpackFe(num) == BitsOfBytes(num)

\* the first 128 bits of the squeezed element, without a forced top bit
GetChallengeTruncatedOnly(num) == SliceBits(UnpackFe(num), 0, ChallengeBits)

\* get_challenge: bits.truncate(127), then bits.push(AllocatedBit::one(..))
GetChallenge(num) ==
  LET bits == UnpackFe(num)
  IN CatBits(SliceBits(bits, 0, Min(ChallengeBits - 1, bits.len)), Bits(1, {1}))

\* one call on the transcript, or one folding of an instance
Event(op, what, round, inst, coord, val) ==
  [op |-> op, what |-> what, round |-> round, inst |-> inst, coord |-> coord,
   val |-> val]

\* commit_point: absorb the x of the point, then its y
CommitPoint(what, round, inst, pt) ==
  << Event("absorb", what, round, inst, "x", pt[1]),
     Event("absorb", what, round, inst, "y", pt[2]) >>

\* get_challenge: one squeeze
GetChallengeCall(what, round) == << Event("squeeze", what, round, 0, "-", 0) >>

\* the folding of instance j in a round: p[j] and v[j] are replaced
FoldInstance(round, inst) == << Event("fold", "p_v", round, inst, "-", 0) >>

RECURSIVE Concat(_)
Concat(seqs) == IF seqs = <<>> THEN <<>> ELSE Head(seqs) \o Concat(Tail(seqs))

\* a point witnessed from the proof: E2::zero() when there is no proof
WitnessPoint(proof, n) == IF proof.some THEN <<proof.v + n, proof.v + 2 * n>> ELSE <<0, 0>>

\* the number of instances verify_proof hands to verify_inner_product
Instances == 5

\* a round that squeezes its challenge before its points are absorbed
RoundEventsSqueezeFirst(proof, i) ==
  GetChallengeCall("round challenge", i)
    \o Concat([j \in 1..Instances |->
                 CommitPoint("L", i, j - 1, WitnessPoint(proof, 20 + j))
                   \o CommitPoint("R", i, j - 1, WitnessPoint(proof, 30 + j))
                   \o CommitPoint("l", i, j - 1, WitnessPoint(proof, 40 + j))
                   \o CommitPoint("r", i, j - 1, WitnessPoint(proof, 50 + j))])
    \o Concat([j \in 1..Instances |-> FoldInstance(i, j - 1)])

\* verify_inner_product, round i: L, R, l, r of each instance are witnessed
\* and committed, the challenge is squeezed, every instance is folded
RoundEvents(proof, i) ==
  Concat([j \in 1..Instances |->
            CommitPoint("L", i, j - 1, WitnessPoint(proof, 20 + j))
              \o CommitPoint("R", i, j - 1, WitnessPoint(proof, 30 + j))
              \o CommitPoint("l", i, j - 1, WitnessPoint(proof, 40 + j))
              \o CommitPoint("r", i, j - 1, WitnessPoint(proof, 50 + j))])
    \o GetChallengeCall("round challenge", i)
    \o Concat([j \in 1..Instances |-> FoldInstance(i, j - 1)])

\* verify_inner_product: the rounds 0..k-1
VerifyInnerProductEvents(k, proof) ==
  Concat([i \in 1..k |-> RoundEvents(proof, i - 1)])

\* verify_proof: its calls on the transcript in the order of its code, then
\* those of verify_inner_product; kc is the k-commitment and op the point
\* g multiplied by a field of the deferred bits
VerifyProofEvents(k, proof, kc, op) ==
  CommitPoint("k_commitment", 0, 0, kc)
    \o CommitPoint("r_commitment", 0, 0, WitnessPoint(proof, 1))
    \o GetChallengeCall("y_cur", 0)
    \o CommitPoint("s_cur_commitment", 0, 0, WitnessPoint(proof, 2))
    \o CommitPoint("t_positive_commitment", 0, 0, WitnessPoint(proof, 3))
    \o CommitPoint("t_negative_commitment", 0, 0, WitnessPoint(proof, 4))
    \o GetChallengeCall("x", 0)
    \o CommitPoint("c_commitment", 0, 0, WitnessPoint(proof, 5))
    \o GetChallengeCall("y_new", 0)
    \o CommitPoint("s_new_commitment", 0, 0, WitnessPoint(proof, 6))
    \o CommitPoint("ky_opening_pt", 0, 0, op)
    \o CommitPoint("rx_opening_pt", 0, 0, op)
    \o CommitPoint("rxy_opening_pt", 0, 0, op)
    \o CommitPoint("sx_old_opening_pt", 0, 0, WitnessPoint(proof, 7))
    \o CommitPoint("sx_cur_opening_pt", 0, 0, op)
    \o CommitPoint("tx_positive_opening_pt", 0, 0, op)
    \o CommitPoint("tx_negative_opening_pt", 0, 0, op)
    \o CommitPoint("sx_new_opening_pt", 0, 0, WitnessPoint(proof, 8))
    \o CommitPoint("gx_old_opening_pt", 0, 0, op)
    \o GetChallengeCall("z", 0)
    \o VerifyInnerProductEvents(k, proof)

\* verify_proof: the pairs of bits it hands to equal_unless_base_case: the
\* coordinates of s_old_commitment, g_old, s_new_commitment and g_new, the
\* challenges y_new (twice), x and y_cur, and each new challenge twice
VerifyProofPairs(k) == 8 * FieldBits + (4 + 2 * k) * ChallengeBits

\* one stage of synthesize: the step of the specification it belongs to,
\* the variables it allocates and the constraints it emits in
\* recursion.rs (a gate is three variables and three constraints), and its
\* calls on the transcript
Stage(step, what, vars, cons, calls) ==
  [step |-> step, what |-> what, vars |-> vars, cons |-> cons, calls |-> calls]

\* the stages with the k-commitment recomputed before the base payload gate
SynthStagesGateAfterCommitment(circ, bp) ==
  LET k == circ.params.k
      inputs == SynthInputs(circ).len
      old_payload == SynthOldPayload(circ, bp).len
      pairs == Min(bp.len, old_payload)
      old_leftovers1 == SynthOldLeftovers1(circ).len
      old_challenges == Min(FieldBits * k, old_leftovers1 - FieldBits * 5)
  IN << Stage(1, "public inputs", inputs, 0, <<>>),
        Stage(1, "boolean checks", 0, inputs, <<>>),
        Stage(2, "base_case", 1, 0, <<>>),
        Stage(3, "old_payload", old_payload, 0, <<>>),
        Stage(3, "old_leftovers1", old_leftovers1, 0, <<>>),
        Stage(3, "old_deferred", SynthOldDeferred(circ).len, 0, <<>>),
        Stage(3, "k_commitment", 0,
              Min(SynthBitsForKCommitment(circ, bp).len, circ.params.ngens - 2), <<>>),
        Stage(4, "base payload gate", 3 * pairs, 3 * pairs, <<>>),
        Stage(5, "verify_deferred", 16 + 2 * k, 23 + 2 * k, <<>>),
        Stage(6, "verify_proof", 3 * VerifyProofPairs(k),
              3 * VerifyProofPairs(k)
                + (4 + 2 * k) * (FieldBits - ChallengeBits), TranscriptCalls(k)),
        Stage(7, "old challenges", 3 * old_challenges, 3 * old_challenges, <<>>),
        Stage(7, "y_old", 3 * FieldBits, 3 * FieldBits, <<>>),
        Stage(8, "inner circuit", 0, 0, <<>>) >>

\* the stages of synthesize in the order of its code
SynthStages(circ, bp) ==
  LET k == circ.params.k
      inputs == SynthInputs(circ).len
      old_payload == SynthOldPayload(circ, bp).len
      pairs == Min(bp.len, old_payload)
      old_leftovers1 == SynthOldLeftovers1(circ).len
      old_challenges == Min(FieldBits * k, old_leftovers1 - FieldBits * 5)
  IN << Stage(1, "public inputs", inputs, 0, <<>>),
        Stage(1, "boolean checks", 0, inputs, <<>>),
        Stage(2, "base_case", 1, 0, <<>>),
        Stage(3, "old_payload", old_payload, 0, <<>>),
        Stage(4, "base payload gate", 3 * pairs, 3 * pairs, <<>>),
        Stage(3, "old_leftovers1", old_leftovers1, 0, <<>>),
        Stage(3, "old_deferred", SynthOldDeferred(circ).len, 0, <<>>),
        Stage(3, "k_commitment", 0,
              Min(SynthBitsForKCommitment(circ, bp).len, circ.params.ngens - 2), <<>>),
        Stage(5, "verify_deferred", 16 + 2 * k, 23 + 2 * k, <<>>),
        Stage(6, "verify_proof", 3 * VerifyProofPairs(k),
              3 * VerifyProofPairs(k)
                + (4 + 2 * k) * (FieldBits - ChallengeBits), TranscriptCalls(k)),
        Stage(7, "old challenges", 3 * old_challenges, 3 * old_challenges, <<>>),
        Stage(7, "y_old", 3 * FieldBits, 3 * FieldBits, <<>>),
        Stage(8, "inner circuit", 0, 0, <<>>) >>

\* a synthesis that fails on every absent value
StageWitnessStrict(circ, what) ==
  LET Absent(present) ==
        [present |-> present,
         result |-> IF present THEN "value" ELSE "AssignmentMissing"]
  IN CASE what = "public inputs" ->
            Absent(circ.old_leftovers.some /\ circ.new_leftovers.some
                     /\ circ.deferred.some)
       [] what = "base_case" -> Absent(circ.base_case.some)
       [] what \in {"old_payload", "old_leftovers1", "old_deferred", "verify_proof"} ->
            Absent(circ.proof.some)
       [] OTHER -> [present |-> TRUE, result |-> "value"]

\* what a stage of synthesize gets when it asks the circuit for a value:
\* whether the circuit holds it, and the value itself, the substitute
\* taken for it, or the error AssignmentMissing
StageWitness(circ, what) ==
  LET Or(present, substitute) ==
        [present |-> present,
         result |-> IF present THEN "value" ELSE substitute]
  IN CASE what = "public inputs" ->
            Or(circ.old_leftovers.some /\ circ.new_leftovers.some
                 /\ circ.deferred.some, "false")
       [] what = "base_case" -> Or(circ.base_case.some, "AssignmentMissing")
       [] what = "old_payload" -> Or(circ.proof.some, "base_payload")
       [] what = "old_leftovers1" -> Or(circ.proof.some, "false")
       [] what = "old_deferred" -> Or(circ.proof.some, "dummy")
       [] what = "verify_proof" -> Or(circ.proof.some, "zero")
       [] OTHER -> [present |-> TRUE, result |-> "value"]

\* obtain_scalar_from_bits on bits of which those in missing have no
\* value: a bit without a value adds nothing
ObtainScalarWithMissing(bits, missing) ==
  ObtainScalarFromBits(Bits(bits.len, bits.ones \ missing))

\* verify_deferred: the names of the fields in the order it unpacks them,
\* each with its index in its vector (0 for a single value)
DeferredNames(k) ==
  << <<"x", 0>>, <<"y_old", 0>>, <<"y_cur", 0>>, <<"y_new", 0>>,
     <<"ky_opening", 0>>, <<"tx_positive_opening", 0>>,
     <<"tx_negative_opening", 0>>, <<"sx_cur_opening", 0>>,
     <<"rx_opening", 0>>, <<"rxy_opening", 0>> >>
    \o [i \in 1..k |-> <<"challenges_old", i - 1>>]
    \o << <<"gx_old_opening", 0>> >>
    \o [i \in 1..k |-> <<"challenges_new", i - 1>>]
    \o << <<"b_x", 0>>, <<"b_xy", 0>>, <<"b_y_old", 0>>, <<"b_y_cur", 0>>,
          <<"b_y_new", 0>> >>

\* the field element packed from field f (from 0) of a bit buffer
FieldOfBits(bits, f) ==
  ObtainScalarFromBits(SliceBits(bits, FieldBits * f, FieldBits * (f + 1))).value

\* verify_deferred: one obtain_scalar_from_bits per name on the first 256
\* bits left, then the assertion that no bits are left; a buffer that is
\* too short fails a slice
VerifyDeferredUnpack(bits, k) ==
  LET names == DeferredNames(k)
  IN IF bits.len # FieldBits * Len(names)
     THEN [outcome |-> "panic", names |-> names, values |-> <<>>]
     ELSE [outcome |-> "ok", names |-> names,
           values |-> [n \in DOMAIN names |-> FieldOfBits(bits, n - 1)]]

\* the fields with tx_positive_opening and tx_negative_opening exchanged
DeferredFieldsUsedExchanged(k) ==
  {<< <<"tx_positive_opening", 0>>, 6 >>, << <<"tx_negative_opening", 0>>, 5 >>}

\* the fields (from 0) of the deferred bits that verify_proof and
\* synthesize slice out, each with the value they take it for
DeferredFieldsUsed(k) ==
  {<< <<"ky_opening", 0>>, 4 >>, << <<"rx_opening", 0>>, 8 >>,
   << <<"rxy_opening", 0>>, 9 >>, << <<"sx_cur_opening", 0>>, 7 >>,
   << <<"tx_positive_opening", 0>>, 5 >>, << <<"tx_negative_opening", 0>>, 6 >>,
   << <<"gx_old_opening", 0>>, 10 + k >>,
   << <<"b_x", 0>>, 11 + 2 * k >>, << <<"b_xy", 0>>, 12 + 2 * k >>,
   << <<"b_y_old", 0>>, 13 + 2 * k >>, << <<"b_y_cur", 0>>, 14 + 2 * k >>,
   << <<"b_y_new", 0>>, 15 + 2 * k >>,
   << <<"x", 0>>, 0 >>, << <<"y_cur", 0>>, 2 >>, << <<"y_new", 0>>, 3 >>,
   << <<"y_old", 0>>, 1 >>}
    \cup {<< <<"challenges_new", i>>, 11 + k + i >> : i \in 0..(k - 1)}
    \cup {<< <<"challenges_old", i>>, 10 + i >> : i \in 0..(k - 1)}

\* The group of the final checks of verify_inner_product is modelled by the
\* additive group of the field with generator g = 1: [s] P is s * P.  A
\* point and its negative share their x coordinate.
GroupG == 1
ScalarMul(s, pt) == FMul(s, pt)
PointXY(pt) == <<FMul(pt, pt), pt>>

\* verify_proof: the slices of the deferred bits it hands to
\* verify_inner_product as b, in the order of the instances
VerifyProofB(k, new_deferred) ==
  [j \in 1..Instances |->
     SliceBits(new_deferred, FieldBits * (10 + 2 * k + j),
               FieldBits * (10 + 2 * k + j) + FieldBits)]

\* the commitments verify_proof hands to verify_inner_product
InstanceCommitments == <<"p", "r", "c", "q", "c">>

\* final checks that compare the x coordinates only
FinalChecksOnX(bc, p, v, a, g_new, b) ==
  \A j \in 1..Instances :
     /\ GateSatisfiable(PointXY(p[j])[1], PointXY(ScalarMul(a[j], g_new))[1], bc)
     /\ GateSatisfiable(
           PointXY(v[j])[1],
           PointXY(ScalarMul(ObtainScalarFromBits(b[j]).value,
                             ScalarMul(a[j], GroupG)))[1], bc)

\* verify_inner_product after the rounds: for each instance j,
\* num_equal_unless_base_case on the x and on the y of p[j] and
\* [a_j] g_new, and of v[j] and [b_j] ([a_j] g)
FinalChecks(bc, p, v, a, g_new, b) ==
  \A j \in 1..Instances :
     LET lhs1 == PointXY(p[j])
         rhs1 == PointXY(ScalarMul(a[j], g_new))
         lhs2 == PointXY(v[j])
         rhs2 == PointXY(ScalarMul(ObtainScalarFromBits(b[j]).value,
                                   ScalarMul(a[j], GroupG)))
     IN /\ GateSatisfiable(lhs1[1], rhs1[1], bc)
        /\ GateSatisfiable(lhs1[2], rhs1[2], bc)
        /\ GateSatisfiable(lhs2[1], rhs2[1], bc)
        /\ GateSatisfiable(lhs2[2], rhs2[2], bc)

\* the comparisons on the low 128 bits of each field only
OldFieldsChecksOnLowBits(bc, k, deferred, old_leftovers1) ==
  [outcome |->
     IF /\ \A i \in 0..(k - 1) :
              EqualUnlessBaseCase(bc,
                 SliceBits(deferred, FieldBits * (10 + i),
                           FieldBits * (10 + i) + ChallengeBits),
                 SliceBits(old_leftovers1, FieldBits * (5 + i),
                           FieldBits * (5 + i) + ChallengeBits))
        /\ EqualUnlessBaseCase(bc,
              SliceBits(deferred, FieldBits, FieldBits + ChallengeBits),
              SliceBits(old_leftovers1, FieldBits * 2, FieldBits * 2 + ChallengeBits))
     THEN "sat" ELSE "unsat",
   lens |-> <<FieldBits * k, old_leftovers1.len - FieldBits * 5, FieldBits, FieldBits>>]

\* synthesize, after verify_proof: equal_unless_base_case on
\* deferred[256*10..256*(10+k)] and old_leftovers1[256*5..], then on
\* deferred[256*1..256*2] and old_leftovers1[256*2..256*3]; each asserts
\* that its slices have one length
OldFieldsChecks(bc, k, deferred, old_leftovers1) ==
  LET lhs1 == SliceBits(deferred, FieldBits * 10, FieldBits * (10 + k))
      rhs1 == SliceBits(old_leftovers1, FieldBits * 5, old_leftovers1.len)
      lhs2 == SliceBits(deferred, FieldBits * 1, FieldBits * 2)
      rhs2 == SliceBits(old_leftovers1, FieldBits * 2, FieldBits * 3)
  IN [outcome |->
        IF lhs1.len # rhs1.len \/ lhs2.len # rhs2.len THEN "panic"
        ELSE IF EqualUnlessBaseCase(bc, lhs1, rhs1) /\ EqualUnlessBaseCase(bc, lhs2, rhs2)
        THEN "sat" ELSE "unsat",
      lens |-> <<lhs1.len, rhs1.len, lhs2.len, rhs2.len>>]

\* v = v.mul(&v), times over
RECURSIVE SquareTimes(_, _)
SquareTimes(v, times) == IF times = 0 THEN v ELSE SquareTimes(FMul(v, v), times - 1)

\* the chains with xinvd squared once
VerifyDeferredPowersSquaredOnce(k, x, y_cur) ==
  LET xinv == FInv(x)
      nk == k - 2
      xinvn == SquareTimes(xinv, nk)
  IN [xinvn |-> xinvn, xinvd |-> SquareTimes(xinvn, 1),
      yn |-> SquareTimes(y_cur, nk), xn |-> SquareTimes(x, nk),
      xyinvn31 |-> 0, xinvn31 |-> 0]

\* verify_deferred: the powers it computes from x and y_cur by chains of
\* multiplications, nk = k - 2 squarings in each loop
VerifyDeferredPowers(k, x, y_cur) ==
  LET xinv == FInv(x)
      yinv == FInv(y_cur)
      xyinv == FMul(xinv, yinv)
      xy == FMul(x, y_cur)
      nk == k - 2
      xinvn == SquareTimes(xinv, nk)
      xinvd == SquareTimes(xinvn, 2)
      yn == SquareTimes(y_cur, nk)
      xn == SquareTimes(x, nk)
      xyinvn == SquareTimes(xyinv, nk)
      tmp == FMul(xyinvn, xyinvn)
      xyinv3n == FMul(xyinvn, tmp)
      xyinvn31 == FMul(xyinv3n, xy)
      xinv2n == FMul(xinvn, xinvn)
      xinv3n == FMul(xinv2n, xinvn)
      xinvn31 == FMul(xinv3n, x)
  IN [xinvn |-> xinvn, xinvd |-> xinvd, yn |-> yn, xn |-> xn,
      xyinvn31 |-> xyinvn31, xinvn31 |-> xinvn31]

\* A usize is 64 bits wide; it is kept as 4 limbs of 16 bits, the lowest
\* first.
LimbBase == 65536
UsizeLimbs == 4
ToUsize(n) == [i \in 1..UsizeLimbs |-> IF i = 1 THEN n ELSE 0]
UsizeMax == [i \in 1..UsizeLimbs |-> LimbBase - 1]

\* a < b on two usize
UsizeLess(a, b) ==
  \E i \in 1..UsizeLimbs : a[i] < b[i] /\ \A j \in (i + 1)..UsizeLimbs : a[j] = b[j]

\* the borrow into limb i of a - b
RECURSIVE Borrow(_, _, _)
Borrow(a, b, i) ==
  IF i = 1 THEN 0
  ELSE IF a[i - 1] - b[i - 1] - Borrow(a, b, i - 1) < 0 THEN 1 ELSE 0

\* a.wrapping_sub(b): the difference modulo 2^64
WrappingSub(a, b) ==
  [i \in 1..UsizeLimbs |-> (a[i] - b[i] - Borrow(a, b, i) + LimbBase) % LimbBase]

\* the two ways a build treats an overflow of integer arithmetic: a panic
\* (overflow checks, the default of a debug build) or a wrap (the default
\* of a release build)
Builds == {"checked", "wrapping"}

\* a subtraction that saturates at 0 in place of k - 2
VerifyDeferredRoundsSaturating(k, build) ==
  IF k >= 2
  THEN [outcome |-> "ok", nk |-> ToUsize(k - 2), identity |-> TRUE]
  ELSE [outcome |-> "ok", nk |-> ToUsize(0), identity |-> TRUE]

\* verify_deferred up to the constraint of the polynomial identity:
\* nk = self.params.k - 2 on usize, then loops of nk squarings; a loop of
\* more than 2^16 squarings is not run to its end, and no constraint after
\* it is emitted
VerifyDeferredRounds(k, build) ==
  LET underflow == UsizeLess(ToUsize(k), ToUsize(2))
      nk == WrappingSub(ToUsize(k), ToUsize(2))
  IN IF underflow /\ build = "checked"
     THEN [outcome |-> "panic", nk |-> ToUsize(0), identity |-> FALSE]
     ELSE IF UsizeLess(ToUsize(LimbBase - 1), nk)
     THEN [outcome |-> "unbounded", nk |-> nk, identity |-> FALSE]
     ELSE [outcome |-> "ok", nk |-> nk, identity |-> TRUE]

\* compute_b with its assertions: challenges.len() >= 1 and as many
\* inverses as challenges
ComputeBAsserted(x, challenges, challenges_inv) ==
  IF Len(challenges) < 1 \/ Len(challenges) # Len(challenges_inv)
  THEN [outcome |-> "panic", value |-> 0]
  ELSE [outcome |-> "ok", value |-> ComputeB(x, challenges, challenges_inv).value]

\* a loop that squares cur before it extends the polynomial
RECURSIVE ThingLoopSquaringFirst(_, _, _)
ThingLoopSquaringFirst(acc, cur, left) ==
  IF left = 0 THEN [value |-> acc, muls |-> 0, squarings |-> 0]
  ELSE LET cur2 == FMul(cur, cur)
           r == ThingLoopSquaringFirst(FAdd(acc, FMul(acc, cur2)), cur2, left - 1)
       IN [value |-> r.value, muls |-> r.muls + 1, squarings |-> r.squarings + 1]

\* the state of compute_thing after its loop has run `left` more times
RECURSIVE ThingLoop(_, _, _)
ThingLoop(acc, cur, left) ==
  IF left = 0 THEN [value |-> acc, muls |-> 0, squarings |-> 0]
  ELSE LET tmp == FMul(acc, cur)
           r == ThingLoop(FAdd(acc, tmp), FMul(cur, cur), left - 1)
       IN [value |-> r.value, muls |-> r.muls + 1, squarings |-> r.squarings + 1]

\* compute_thing(cs, x, k): acc and cur start at x; each of the k
\* iterations multiplies acc by cur, squares cur and adds the product to
\* acc
ComputeThing(x, k) == ThingLoop(x, x, k)

\* the circuit verify_inner builds for the shape of circ: the same
\* parameters and new payload, every witness None
ShapeCircuit(circ) ==
  VerificationCircuit(circ.params, None, None, circ.new_payload, None, None, None)

\* whether the witness of a prover-mode circuit satisfies the constraints
\* of synthesize: the base payload gate, verify_deferred on the old
\* deferred values, the zeroed upper halves of the challenge fields, and the
\* gated equalities of the old challenges and y_old
SynthSatisfied(circ, bp) ==
  LET k == circ.params.k
      bc == IF circ.base_case.v THEN 1 ELSE 0
      def == SynthDeferred(circ)
      old == SynthOldLeftovers1(circ)
  IN /\ BasePayloadGate(bp, SynthOldPayload(circ, bp), bc)
     /\ DeferredVerify(IF circ.proof.some THEN circ.proof.v.deferred
                       ELSE DeferredDummy(k), k)
     /\ VerifyProofZeroed(k, def, SynthLeftovers2(circ))
     /\ EqualUnlessBaseCase(bc, SliceBits(def, FieldBits * 10, FieldBits * (10 + k)),
                            SliceBits(old, FieldBits * 5, old.len))
     /\ EqualUnlessBaseCase(bc, SliceBits(def, FieldBits * 1, FieldBits * 2),
                            SliceBits(old, FieldBits * 2, FieldBits * 3))

\* ------------------------------------------------------------ RecursiveProof
RecursiveProof(proof, old_leftovers, new_leftovers, newdeferred, payload) ==
  [proof |-> proof, oldproof1 |-> old_leftovers, oldproof2 |-> new_leftovers,
   deferred |-> newdeferred, payload |-> payload]

\* verify_inner: the bytes of the public inputs
HostInputBytes(P) ==
  CatBytes(CatBytes(CatBytes(BytesOfSeq(P.payload), LeftoversToBytes(P.oldproof1)),
                    LeftoversToBytes(P.oldproof2)), DeferredToBytes(P.deferred))

\* verify_inner: the calls of iter_gens.next() made before the turn of bit
\* n by the turns of the 1 bits (iter_gens.next().unwrap()) ...
OneTurnCalls(bits, n) == Cardinality({o \in bits.ones : o < n})

\* a loop whose 0 bits consume no generator
ZeroTurnCallsNone(bits, n) == 0

\* ... and by the turns of the 0 bits (iter_gens.next())
ZeroTurnCalls(bits, n) == (n - 1) - Cardinality({o \in bits.ones : o < n})

\* iter_gens = generators[2..].iter(): the index of the generator the next
\* call returns after calls calls; ngens when the iterator is exhausted
IterNext(calls, ngens) == Min(2 + calls, ngens)

\* verify_inner: the index iter_gens.next() returns in the turn of bit n
HostNext(bits, n, ngens) ==
  IterNext(OneTurnCalls(bits, n) + ZeroTurnCalls(bits, n), ngens)

\* verify_inner: generators[1], generators[2..] or the unwrap of an
\* exhausted iterator panics
HostPanics(bits, ngens) ==
  \/ ngens < 2
  \/ \E n \in bits.ones : HostNext(bits, n, ngens) >= ngens

\* verify_inner: k_commitment after the loop
HostKCommitment(bits, ngens) ==
  {1} \cup {HostNext(bits, n, ngens) : n \in bits.ones}

\* verify_inner: the scalars pushed to bitinputs, one() for a 1 bit and
\* zero() for a 0 bit
HostBitInputs(P) ==
  LET bits == BitsOfBytes(HostInputBytes(P))
  IN Bits(bits.len, {n \in bits.ones : BitAt(bits, n) = 1})

\* verify_inner: the accumulator handed to self.proof.verify
WrappedAccumulator(P) == P.oldproof1

\* a flag that leaves the wrapped proof out
TwinFlagOnly(w1, w2) == w2

\* verify_inner: worked & self.oldproof2.verify(..)
VerifyInnerFlag(w1, w2) == w1 /\ w2

\* what verify_inner returns when it panics
InnerPanic ==
  [outcome |-> "panic", w1 |-> FALSE, w2 |-> FALSE, worked |-> FALSE,
   deferred |-> <<>>, a |-> <<>>, b |-> <<>>, acc |-> <<>>,
   bitinputs |-> ZeroBits(0), k_commitment |-> {}]

\* self.verify_inner(e1params, e2params, circuit)
VerifyInner(P, e1, e2, bp) ==
  LET circuit1 == VerificationCircuit(e2, None, None, P.payload, None, None, None)
      bits == BitsOfBytes(HostInputBytes(P))
      k_commitment == HostKCommitment(bits, e1.ngens)
      bitinputs == HostBitInputs(P)
      acc == WrappedAccumulator(P)
      pv == ProofVerify(P.proof, acc, e1, SynthShape(circuit1, bp),
                        bitinputs, k_commitment)
      w2 == LeftoversVerify(P.oldproof2, e2)
  IN IF HostPanics(bits, e1.ngens) THEN InnerPanic
     ELSE [outcome |-> "ok", w1 |-> pv.worked, w2 |-> w2,
           worked |-> VerifyInnerFlag(pv.worked, w2),
           deferred |-> pv.deferred, a |-> pv.leftovers, b |-> P.oldproof2,
           acc |-> acc, bitinputs |-> bitinputs, k_commitment |-> k_commitment]

\* a conjunction that leaves the flag of verify_inner out
VerifyResultWithoutFlag(worked, d1, d2, av, bv) == d1 /\ d2 /\ av /\ bv

\* verify: the conjunction it returns
VerifyResult(worked, d1, d2, av, bv) == worked /\ d1 /\ d2 /\ av /\ bv

\* self.verify(e1params, e2params, circuit)
Verify(P, e1, e2, bp) ==
  LET vi == VerifyInner(P, e1, e2, bp)
      d1 == DeferredVerify(P.deferred, e2.k)
      d2 == DeferredVerify(vi.deferred, e1.k)
      av == LeftoversVerify(vi.a, e1)
      bv == LeftoversVerify(vi.b, e2)
  IN IF vi.outcome = "panic"
     THEN [outcome |-> "panic", vi |-> vi, d1 |-> FALSE, d2 |-> FALSE,
           av |-> FALSE, bv |-> FALSE, result |-> FALSE]
     ELSE [outcome |-> "ok", vi |-> vi, d1 |-> d1, d2 |-> d2, av |-> av,
           bv |-> bv, result |-> VerifyResult(vi.worked, d1, d2, av, bv)]

\* witnesses whose accumulators and deferred values all have the sizes of
\* e2params
CreateWitnessesOfOneK(e1, e2, old, vi) ==
  [newdeferred |-> DeferredDummy(e2.k), new_leftovers |-> LeftoversDummy(e2),
   old_leftovers |-> LeftoversDummy(e2)]

\* create_proof: (newdeferred, new_leftovers, old_leftovers); vi is what
\* old_proof.verify_inner(e2params, e1params, circuit) returned
CreateWitnesses(e1, e2, old, vi) ==
  IF old.some
  THEN [newdeferred |-> vi.deferred, new_leftovers |-> vi.a, old_leftovers |-> vi.b]
  ELSE [newdeferred |-> DeferredDummy(e2.k), new_leftovers |-> LeftoversDummy(e2),
        old_leftovers |-> LeftoversDummy(e1)]

\* a circuit that is never a base case
CreateCircuitNeverBase(e2, old, new_payload, w) ==
  VerificationCircuit(e2, Some(FALSE), IF old.some THEN old ELSE None,
                      new_payload, Some(w.old_leftovers), Some(w.new_leftovers),
                      Some(w.newdeferred))

\* create_proof: the circuit handed to the prover
CreateCircuit(e2, old, new_payload, w) ==
  VerificationCircuit(e2, IF old.some THEN Some(FALSE) ELSE Some(TRUE),
                      IF old.some THEN old ELSE None, new_payload,
                      Some(w.old_leftovers), Some(w.new_leftovers),
                      Some(w.newdeferred))

\* a result with the two accumulators in each other's field
CreateResultSwapped(proof, w, new_payload) ==
  RecursiveProof(proof, w.new_leftovers, w.old_leftovers, w.newdeferred, new_payload)

\* create_proof: the RecursiveProof returned
CreateResult(proof, w, new_payload) ==
  RecursiveProof(proof, w.old_leftovers, w.new_leftovers, w.newdeferred, new_payload)

NoProof == RecursiveProof(<<>>, <<>>, <<>>, <<>>, <<>>)
NoCircuit == VerificationCircuit(<<>>, None, None, <<>>, None, None, None)

\* a create_proof that gives up when the flag of verify_inner is false
CreateProofCheckingFlag(e1, e2, old, new_payload, bp) ==
  LET vi == IF old.some THEN VerifyInner(old.v, e2, e1, bp) ELSE InnerPanic
      w == CreateWitnesses(e1, e2, old, vi)
      circ == CreateCircuit(e2, old, new_payload, w)
      proof == ProofNew(e1, SynthShape(circ, bp), SynthInputs(circ),
                        SynthSatisfied(circ, bp), w.old_leftovers)
  IN IF old.some /\ vi.outcome = "panic"
     THEN [outcome |-> "panic", P |-> NoProof, circ |-> NoCircuit, vi |-> vi]
     ELSE IF old.some /\ ~vi.worked
     THEN [outcome |-> "error", P |-> NoProof, circ |-> circ, vi |-> vi]
     ELSE IF SynthPanics(circ, bp)
     THEN [outcome |-> "panic", P |-> NoProof, circ |-> circ, vi |-> vi]
     ELSE [outcome |-> "ok", P |-> CreateResult(proof, w, new_payload),
           circ |-> circ, vi |-> vi]

\* RecursiveProof::create_proof(e1params, e2params, old_proof, circuit, new_payload)
CreateProof(e1, e2, old, new_payload, bp) ==
  LET vi == IF old.some THEN VerifyInner(old.v, e2, e1, bp) ELSE InnerPanic
      w == CreateWitnesses(e1, e2, old, vi)
      circ == CreateCircuit(e2, old, new_payload, w)
      inputs == SynthInputs(circ)
      proof == ProofNew(e1, SynthShape(circ, bp), inputs,
                        SynthSatisfied(circ, bp), w.old_leftovers)
  IN IF old.some /\ vi.outcome = "panic"
     THEN [outcome |-> "panic", P |-> NoProof, circ |-> NoCircuit, vi |-> vi]
     ELSE IF SynthPanics(circ, bp)
     THEN [outcome |-> "panic", P |-> NoProof, circ |-> circ, vi |-> vi]
     ELSE [outcome |-> "ok", P |-> CreateResult(proof, w, new_payload),
           circ |-> circ, vi |-> vi]

\* ------------------------------------------------------------ state machine
\* e: the parameter set of each curve; base_payload: the inner circuit's
\* base_payload(); chain: the proofs built, each from the one before it;
\* built: the circuit create_proof handed to the prover for the last of them;
\* tampered: the index of the proof whose contents were changed after its
\* creation (0: none); last: what the last call did and returned
VARIABLES e, base_payload, chain, built, tampered, last

vars == <<e, base_payload, chain, built, tampered, last>>

\* proof i of a chain is over curve A when i is odd
CurveOf(i) == IF i % 2 = 1 THEN "A" ELSE "B"
E1(i) == e[CurveOf(i)]
E2(i) == e[Other(CurveOf(i))]

\* the payloads the application hands to create_proof: empty, or of the
\* length of the base payload
FullPayload(b) == [i \in 1..MaxPayloadBytes |-> b]
Payloads == {<<>>, FullPayload(255)}
BasePayload == BitsOfBytes(BytesOfSeq(FullPayload(5)))

\* generator vectors: room for the public inputs of every proof of the
\* model, or for the bits of a payload only
GensRoomy == 2 + 8 * MaxPayloadBytes + FieldBits * (26 + 4 * MaxK)
GensShort == 2 + 8 * MaxPayloadBytes
GenLens == {GensRoomy, GensShort}

NoVerify ==
  [outcome |-> "none", vi |-> InnerPanic, d1 |-> FALSE, d2 |-> FALSE,
   av |-> FALSE, bv |-> FALSE, result |-> FALSE]

NoCall == [op |-> "none", idx |-> 0, outcome |-> "none", ngens |-> 0, v |-> NoVerify]

ParamSets ==
  {[c \in Curves |-> [curve |-> c, k |-> IF c = "A" THEN ka ELSE kb,
                      ngens |-> GensRoomy]] : ka \in Ks, kb \in Ks}

Init ==
  /\ e \in ParamSets
  /\ base_payload = BasePayload
  /\ chain = <<>>
  /\ built = None
  /\ tampered = 0
  /\ last = NoCall

\* create_proof(e1params, e2params, old_proof, circuit, new_payload) on the
\* last proof of the chain (None for the first)
DoCreate(new_payload) ==
  /\ Len(chain) < MaxChain
  /\ tampered = 0
  /\ LET n == Len(chain)
         old == IF n = 0 THEN None ELSE Some(chain[n])
         r == CreateProof(E1(n + 1), E2(n + 1), old, new_payload, base_payload)
     IN /\ chain' = IF r.outcome = "ok" THEN Append(chain, r.P) ELSE chain
        /\ built' = IF r.outcome = "ok" THEN Some(r.circ) ELSE built
        /\ last' = [op |-> "create_proof", idx |-> n + 1, outcome |-> r.outcome,
                    ngens |-> E1(n + 1).ngens, v |-> [NoVerify EXCEPT !.vi = r.vi]]
  /\ UNCHANGED <<e, base_payload, tampered>>

\* chain[n].verify_inner(e1params, e2params, circuit) on the last proof, by
\* a verifier whose generator vectors have g elements
DoVerifyInner(g) ==
  /\ chain # <<>>
  /\ LET n == Len(chain)
         vi == VerifyInner(chain[n], [E1(n) EXCEPT !.ngens = g],
                           [E2(n) EXCEPT !.ngens = g], base_payload)
     IN last' = [op |-> "verify_inner", idx |-> n, outcome |-> vi.outcome,
                 ngens |-> g, v |-> [NoVerify EXCEPT !.vi = vi]]
  /\ UNCHANGED <<e, base_payload, chain, built, tampered>>

\* chain[n].verify(e1params, e2params, circuit) on the last proof
DoVerify ==
  /\ chain # <<>>
  /\ LET n == Len(chain)
         r == Verify(chain[n], E1(n), E2(n), base_payload)
     IN last' = [op |-> "verify", idx |-> n, outcome |-> r.outcome,
                 ngens |-> E1(n).ngens, v |-> r]
  /\ UNCHANGED <<e, base_payload, chain, built, tampered>>

\* v with one byte changed
BumpByte(v) == IF v % 256 = 255 THEN v - 255 ELSE v + 1

\* the field element v with byte j (from 0) of its encoding changed
BumpByteAt(v, j) ==
  v - ByteOfFe(v, j) * (256 ^ j) + BumpByte(ByteOfFe(v, j)) * (256 ^ j)

TamperKinds == {"payload", "oldproof1", "oldproof2", "deferred"}

\* the bytes of a field element's encoding a holder changes: the lowest and
\* the highest that is not 0 in every field of the model
TamperBytes == {0, 2}

\* the position changed in a sequence: its first element or its last
TamperAt(s, atend) == IF atend THEN Len(s) ELSE 1

\* the holder of the last proof changes one byte of it: the first or the
\* last byte of its payload, or byte j of the first or the last field of
\* an accumulator or of the deferred values
Tamper(what, atend, j) ==
  /\ tampered = 0
  /\ chain # <<>>
  /\ LET n == Len(chain)
     IN /\ \/ /\ what = "payload"
              /\ j = 0
              /\ chain[n].payload # <<>>
              /\ chain' = [chain EXCEPT ![n].payload[TamperAt(chain[n].payload, atend)]
                                          = BumpByte(@)]
           \/ /\ what = "oldproof1"
              /\ chain' = [chain EXCEPT ![n].oldproof1[TamperAt(chain[n].oldproof1, atend)]
                                          = BumpByteAt(@, j)]
           \/ /\ what = "oldproof2"
              /\ chain' = [chain EXCEPT ![n].oldproof2[TamperAt(chain[n].oldproof2, atend)]
                                          = BumpByteAt(@, j)]
           \/ /\ what = "deferred"
              /\ chain' = [chain EXCEPT ![n].deferred[TamperAt(chain[n].deferred, atend)]
                                          = BumpByteAt(@, j)]
        /\ tampered' = n
        /\ last' = [NoCall EXCEPT !.op = "tamper", !.idx = n]
  /\ UNCHANGED <<e, base_payload, built>>

Next ==
  \/ \E new_payload \in Payloads : DoCreate(new_payload)
  \/ \E g \in GenLens : DoVerifyInner(g)
  \/ DoVerify
  \/ \E what \in TamperKinds, atend \in BOOLEAN, j \in TamperBytes :
        Tamper(what, atend, j)

Spec == Init /\ [][Next]_vars

\* ------------------------------------------- the base payload gate alone
\* A prover fills the fields of a VerificationCircuit itself: base_case is
\* either value, proof is absent or holds any payload.

GateBytes == {0, 5, 7, 255}
GatePayloads ==
  UNION {[1..n -> GateBytes] : n \in 0..(MaxPayloadBytes + 1)}
GateBasePayloads ==
  {BitsOfBytes(BytesOfSeq([i \in 1..n |-> 5])) : n \in 0..(MaxPayloadBytes + 1)}

InitGate ==
  /\ e \in {x \in ParamSets : x["A"].k = MinK /\ x["B"].k = MinK}
  /\ base_payload \in GateBasePayloads
  /\ chain = <<>>
  /\ built = None
  /\ tampered = 0
  /\ last = NoCall

\* synthesize, up to its base payload gate, of a prover's circuit over an
\* embedded proof with payload old_payload (no embedded proof when absent)
SynthesizeGate(bc, absent, old_payload) ==
  /\ last.op = "none"
  /\ LET old == RecursiveProof(<<>>, LeftoversDummy(E2(1)), LeftoversDummy(E1(1)),
                               DeferredDummy(E1(1).k), old_payload)
         circ == VerificationCircuit(E2(1), Some(bc),
                                     IF absent THEN None ELSE Some(old), <<>>,
                                     Some(LeftoversDummy(E1(1))),
                                     Some(LeftoversDummy(E2(1))),
                                     Some(DeferredDummy(E2(1).k)))
         sat == BasePayloadGate(base_payload, SynthOldPayload(circ, base_payload),
                                IF bc THEN 1 ELSE 0)
     IN /\ built' = Some(circ)
        /\ last' = [NoCall EXCEPT !.op = "synthesize", !.idx = 1,
                                  !.outcome = IF sat THEN "sat" ELSE "unsat"]
  /\ UNCHANGED <<e, base_payload, chain, tampered>>

NextGate ==
  \E bc \in BOOLEAN, absent \in BOOLEAN, old_payload \in GatePayloads :
     SynthesizeGate(bc, absent, old_payload)

SpecGate == InitGate /\ [][NextGate]_vars

\* --------------------------------------- the gating of verify_proof alone
\* A circuit with no embedded proof whose accumulator and deferred inputs
\* hold any bit pattern, under either value of base_case.

\* the values verify_proof derives when the squeezed challenges have the low
\* bits low and the unpacked coordinates the bits pt; get_challenge sets
\* bit 127 (from 0) of every challenge
DerivedOf(k, low, pt) ==
  LET ch == Bits(ChallengeBits, low \cup {ChallengeBits})
      co == Bits(FieldBits, pt)
  IN Derived(co, co, co, co, ch, ch, ch, [i \in 1..k |-> ch])

\* bit positions (from 1) a dummy accumulator may set: the lowest bit of
\* s_new_commitment.x, the top bit of the challenge y_new and the first
\* bit of the upper half of its field
DummyLeftoversBits ==
  {1, FieldBits * 2 + ChallengeBits, FieldBits * 2 + ChallengeBits + 1}

\* bit positions a dummy deferred value may set: the top bit of the
\* challenge x, the first bit of the upper half of its field, and the last
\* bit of the field of y_cur
DummyDeferredBits == {ChallengeBits, ChallengeBits + 1, FieldBits * 3}

\* the values Deferred::dummy may hold for the old deferred values
OldDeferredDummies(k) ==
  {DeferredDummy(k), [DeferredDummy(k) EXCEPT ![1] = 1]}

NoGating == [gated |-> FALSE, zeroed |-> FALSE, deferred |-> FALSE]

InitGenesis ==
  /\ e \in {x \in ParamSets : x["A"].k = x["B"].k}
  /\ base_payload = BasePayload
  /\ chain = <<>>
  /\ built = None
  /\ tampered = 0
  /\ last = [NoCall EXCEPT !.v = NoGating]

\* synthesize of a circuit with proof = None: verify_deferred on the old
\* deferred values, verify_proof, and the two gated equalities after it
SynthesizeGenesis(bc, lbits, dbits, oldd, low, pt) ==
  /\ last.op = "none"
  /\ LET k == E2(1).k
         b == IF bc THEN 1 ELSE 0
         new_leftovers == Bits(FieldBits * (5 + k), lbits)
         new_deferred == Bits(FieldBits * (16 + 2 * k), dbits)
         old_leftovers1 == ZeroBits(FieldBits * (5 + k))
         d == DerivedOf(k, low, pt)
         gated == /\ VerifyProofGated(b, k, d, new_deferred, new_leftovers)
                  /\ EqualUnlessBaseCase(b,
                        SliceBits(new_deferred, FieldBits * 10, FieldBits * (10 + k)),
                        SliceBits(old_leftovers1, FieldBits * 5, old_leftovers1.len))
                  /\ EqualUnlessBaseCase(b,
                        SliceBits(new_deferred, FieldBits * 1, FieldBits * 2),
                        SliceBits(old_leftovers1, FieldBits * 2, FieldBits * 3))
         zeroed == VerifyProofZeroed(k, new_deferred, new_leftovers)
         deferred == DeferredVerify(oldd, k)
     IN /\ built' = Some([base_case |-> bc, k |-> k, derived |-> d,
                          new_leftovers |-> new_leftovers,
                          new_deferred |-> new_deferred, old_deferred |-> oldd])
        /\ last' = [op |-> "synthesize", idx |-> 1,
                    outcome |-> IF gated /\ zeroed /\ deferred THEN "sat" ELSE "unsat",
                    ngens |-> E2(1).ngens,
                    v |-> [gated |-> gated, zeroed |-> zeroed, deferred |-> deferred]]
  /\ UNCHANGED <<e, base_payload, chain, tampered>>

NextGenesis ==
  \E bc \in BOOLEAN, lbits \in SUBSET DummyLeftoversBits,
     dbits \in SUBSET DummyDeferredBits, oldd \in OldDeferredDummies(E2(1).k),
     low \in {{}, {1}}, pt \in {{}, {1}} :
     SynthesizeGenesis(bc, lbits, dbits, oldd, low, pt)

SpecGenesis == InitGenesis /\ [][NextGenesis]_vars

\* ------------------------------------------ the equality gadgets alone
BitSeqs == UNION {[1..n -> {0, 1}] : n \in 0..MaxBits}

\* field elements: the smallest and the largest
FieldSamples == {0, 1, 2, FieldModulus - 2, FieldModulus - 1}

InitEqual ==
  /\ e \in {x \in ParamSets : x["A"].k = MinK /\ x["B"].k = MinK}
  /\ base_payload = BasePayload
  /\ chain = <<>>
  /\ built = None
  /\ tampered = 0
  /\ last = [NoCall EXCEPT !.v = 0]

\* equal_unless_base_case(cs, base_case, lhs, rhs)
DoEqualBits(bc, lhs, rhs) ==
  /\ last.op = "none"
  /\ LET r == EqualUnlessBaseCaseBits(bc, lhs, rhs)
     IN /\ built' = Some([base_case |-> bc, lhs |-> lhs, rhs |-> rhs])
        /\ last' = [NoCall EXCEPT !.op = "equal_unless_base_case",
                                  !.outcome = r.outcome, !.v = r.gates]
  /\ UNCHANGED <<e, base_payload, chain, tampered>>

\* num_equal_unless_base_case(cs, base_case, lhs, rhs)
DoEqualNum(bc, lhs, rhs) ==
  /\ last.op = "none"
  /\ LET r == NumEqualUnlessBaseCase(bc, lhs, rhs)
     IN /\ built' = Some([base_case |-> bc, lhs |-> lhs, rhs |-> rhs])
        /\ last' = [NoCall EXCEPT !.op = "num_equal_unless_base_case",
                                  !.outcome = r.outcome, !.v = r.gates]
  /\ UNCHANGED <<e, base_payload, chain, tampered>>

NextEqual ==
  \/ \E bc \in {0, 1}, lhs \in BitSeqs, rhs \in BitSeqs : DoEqualBits(bc, lhs, rhs)
  \/ \E bc \in {0, 1}, lhs \in FieldSamples, rhs \in FieldSamples :
        DoEqualNum(bc, lhs, rhs)

SpecEqual == InitEqual /\ [][NextEqual]_vars

\* ---------------------------------------------------- compute_b alone
\* the points compute_b is evaluated at
PointSamples == {0, 1, 2, 3, FieldModulus - 1}

\* the values of a challenge; a challenge is never 0
ChallengeSamples == {2, 3, FieldModulus - 1}

\* challenge vectors of the lengths verify_deferred hands to compute_b
ChallengeVectors == UNION {[1..m -> ChallengeSamples] : m \in 1..MaxK}

\* c.invert() of each challenge, as verify_deferred computes the inverses
InvertAll(challenges) == [i \in DOMAIN challenges |-> FInv(challenges[i])]

NoValue == [value |-> 0, calls |-> 0, squarings |-> 0]

InitComputeB ==
  /\ e \in {x \in ParamSets : x["A"].k = MinK /\ x["B"].k = MinK}
  /\ base_payload = BasePayload
  /\ chain = <<>>
  /\ built = None
  /\ tampered = 0
  /\ last = [NoCall EXCEPT !.v = NoValue]

\* self.compute_b(cs, x, &challenges, &challenges_inv)
DoComputeB(x, challenges) ==
  /\ last.op = "none"
  /\ LET challenges_inv == InvertAll(challenges)
     IN /\ built' = Some([x |-> x, challenges |-> challenges,
                          challenges_inv |-> challenges_inv])
        /\ last' = [NoCall EXCEPT !.op = "compute_b", !.outcome = "ok",
                                  !.v = ComputeB(x, challenges, challenges_inv)]
  /\ UNCHANGED <<e, base_payload, chain, tampered>>

NextComputeB ==
  \E x \in PointSamples, challenges \in ChallengeVectors : DoComputeB(x, challenges)

SpecComputeB == InitComputeB /\ [][NextComputeB]_vars

\* the product over the challenges of c^-1 + c * x^(2^i), where the i of
\* challenge j of c_1..c_m is m - j when counted from the last challenge
\* and j - 1 when counted from the first
ProductForm(x, challenges, fromlast) ==
  FProd([j \in DOMAIN challenges |->
           FAdd(FInv(challenges[j]),
                FMul(challenges[j],
                     FPow(x, 2 ^ (IF fromlast THEN Len(challenges) - j ELSE j - 1))))])

\* ------------------------------------- encoding a field element and back
\* the field elements encoded: the smallest, those around the first byte
\* boundary, and the largest
RoundTripValues ==
  (0..80) \cup (250..260) \cup ((FieldModulus - 34)..(FieldModulus - 1))

InitRoundTrip ==
  /\ e \in {x \in ParamSets : x["A"].k = MinK /\ x["B"].k = MinK}
  /\ base_payload = BasePayload
  /\ chain = <<>>
  /\ built = None
  /\ tampered = 0
  /\ last = [NoCall EXCEPT !.v = 0]

\* witness_bits_from_fe(v), then obtain_scalar_from_bits on its bits
DoRoundTrip(v) ==
  /\ last.op = "none"
  /\ LET bits == WitnessBitsFromFe(v)
         r == ObtainScalarFromBits(bits)
     IN /\ built' = Some([value |-> v, bytes |-> FieldsToBytes(<<v>>), bits |-> bits])
        /\ last' = [NoCall EXCEPT !.op = "obtain_scalar_from_bits",
                                  !.outcome = r.outcome, !.v = r.value]
  /\ UNCHANGED <<e, base_payload, chain, tampered>>

NextRoundTrip == \E v \in RoundTripValues : DoRoundTrip(v)

SpecRoundTrip == InitRoundTrip /\ [][NextRoundTrip]_vars

\* ------------------------------------------ synthesize, stage by stage
\* A constraint system that evaluates every witness closure synthesizes a
\* circuit whose Option fields are present or None; last.v is the log of
\* the stages done.

\* Option<bool>: None when has is false
OptionalBool(has, v) == IF has THEN Some(v) ELSE None

\* the circuit with the given fields present; the embedded proof has a
\* payload of the length of the base payload
StagedCircuit(bc, has_proof, has_old, has_new, has_def) ==
  LET old == RecursiveProof(<<>>, LeftoversDummy(E2(1)), LeftoversDummy(E1(1)),
                            DeferredDummy(E1(1).k), FullPayload(7))
  IN VerificationCircuit(E2(1), bc, IF has_proof THEN Some(old) ELSE None,
                         FullPayload(255),
                         IF has_old THEN Some(LeftoversDummy(E1(1))) ELSE None,
                         IF has_new THEN Some(LeftoversDummy(E2(1))) ELSE None,
                         IF has_def THEN Some(DeferredDummy(E2(1).k)) ELSE None)

\* bit positions of a field of which some have a value of 1 and some have
\* no value
ScalarBits == {1, 2, 9, FieldBits}

InitStaged ==
  /\ e \in {x \in ParamSets : x["A"].k = x["B"].k}
  /\ base_payload = BasePayload
  /\ chain = <<>>
  /\ built = None
  /\ tampered = 0
  /\ last = [NoCall EXCEPT !.v = <<>>]

\* circuit.synthesize(cs) begins
StartSynthesize(bc, has_proof, has_old, has_new, has_def) ==
  /\ last.op = "none"
  /\ built' = Some(StagedCircuit(bc, has_proof, has_old, has_new, has_def))
  /\ last' = [NoCall EXCEPT !.op = "synthesize", !.outcome = "running", !.v = <<>>]
  /\ UNCHANGED <<e, base_payload, chain, tampered>>

\* the next stage of synthesize: it ends the synthesis with the error when
\* its value is missing, and with Ok(()) when it is the last
EmitStage ==
  /\ last.op = "synthesize"
  /\ last.outcome = "running"
  /\ LET stages == SynthStages(built.v, base_payload)
         st == stages[last.idx + 1]
         w == StageWitness(built.v, st.what)
         entry == [what |-> st.what, step |-> st.step, cons |-> st.cons,
                   present |-> w.present, result |-> w.result]
     IN last' = [last EXCEPT !.idx = @ + 1, !.v = Append(@, entry),
                             !.outcome = IF w.result = "AssignmentMissing"
                                         THEN "AssignmentMissing"
                                         ELSE IF last.idx + 1 = Len(stages)
                                         THEN "ok" ELSE "running"]
  /\ UNCHANGED <<e, base_payload, chain, built, tampered>>

\* obtain_scalar_from_bits on 256 bits, those of missing without a value
DoObtainScalar(ones, missing) ==
  /\ last.op = "none"
  /\ LET r == ObtainScalarWithMissing(Bits(FieldBits, ones), missing)
     IN /\ built' = Some([ones |-> ones, missing |-> missing])
        /\ last' = [NoCall EXCEPT !.op = "obtain_scalar_from_bits",
                                  !.outcome = r.outcome, !.v = r.value]
  /\ UNCHANGED <<e, base_payload, chain, tampered>>

NextStaged ==
  \/ \E has_bc \in BOOLEAN, bc \in BOOLEAN, has_proof \in BOOLEAN,
        has_old \in BOOLEAN, has_new \in BOOLEAN, has_def \in BOOLEAN :
        StartSynthesize(OptionalBool(has_bc, bc), has_proof, has_old, has_new, has_def)
  \/ EmitStage
  \/ \E ones \in SUBSET ScalarBits, missing \in SUBSET ScalarBits :
        DoObtainScalar(ones, missing)

SpecStaged == InitStaged /\ [][NextStaged]_vars

\* ------------------------------------------- the deferred layout alone
\* deferred values of n fields whose fields all differ: field i holds
\* seed + 300 * i, so that it fills two bytes
SeededDeferred(n, seed) == [i \in 1..n |-> seed + 300 * i]

InitLayout ==
  /\ e \in {x \in ParamSets : x["A"].k = x["B"].k}
  /\ base_payload = BasePayload
  /\ chain = <<>>
  /\ built = None
  /\ tampered = 0
  /\ last = [NoCall EXCEPT !.v = <<>>]

\* verify_deferred(cs, deferred) on the bits of n fields, n around 16 + 2k
DoVerifyDeferred(n, seed) ==
  /\ last.op = "none"
  /\ LET k == E2(1).k
         bits == BitsOfBytes(DeferredToBytes(SeededDeferred(n, seed)))
         r == VerifyDeferredUnpack(bits, k)
     IN /\ built' = Some([k |-> k, bits |-> bits, names |-> r.names])
        /\ last' = [NoCall EXCEPT !.op = "verify_deferred", !.outcome = r.outcome,
                                  !.v = r.values]
  /\ UNCHANGED <<e, base_payload, chain, tampered>>

NextLayout ==
  \E d \in {-1, 0, 1}, seed \in 0..MaxSeed : DoVerifyDeferred(16 + 2 * E2(1).k + d, seed)

SpecLayout == InitLayout /\ [][NextLayout]_vars

\* ------------------------------------------- the transcript of verify_proof
\* the values the proof's points are derived from
ProofSeeds == {1, 7}

InitTranscript ==
  /\ e \in {x \in ParamSets : x["A"].k = x["B"].k}
  /\ base_payload = BasePayload
  /\ chain = <<>>
  /\ built = None
  /\ tampered = 0
  /\ last = [NoCall EXCEPT !.v = <<>>]

\* verify_proof begins, with or without an embedded proof
StartVerifyProof(proof, kc, op) ==
  /\ last.op = "none"
  /\ built' = Some([k |-> E2(1).k, proof |-> proof, kc |-> <<kc, kc + 1>>,
                    op |-> <<op, op + 1>>])
  /\ last' = [NoCall EXCEPT !.op = "verify_proof", !.outcome = "running", !.v = <<>>]
  /\ UNCHANGED <<e, base_payload, chain, tampered>>

\* the next call of verify_proof on the transcript, or the next folding
TranscriptStep ==
  /\ last.op = "verify_proof"
  /\ last.outcome = "running"
  /\ LET events == VerifyProofEvents(built.v.k, built.v.proof, built.v.kc, built.v.op)
     IN last' = [last EXCEPT !.idx = @ + 1, !.v = Append(@, events[last.idx + 1]),
                             !.outcome = IF last.idx + 1 = Len(events)
                                         THEN "ok" ELSE "running"]
  /\ UNCHANGED <<e, base_payload, chain, built, tampered>>

NextTranscript ==
  \/ \E has \in BOOLEAN, seed \in ProofSeeds, kc \in {3}, op \in {5} :
        StartVerifyProof(IF has THEN Some(seed) ELSE None, kc, op)
  \/ TranscriptStep

SpecTranscript == InitTranscript /\ [][NextTranscript]_vars

\* ------------------------------------------------- get_challenge alone
\* the bytes (from 1) of a squeezed element that the model varies: the
\* lowest, those on both sides of bit 127, and the highest
SqueezedBytePositions == <<1, 16, 17, 32>>

\* the values of a varied byte
SqueezedByteValues == {0, 1, 128, 255}

\* the squeezed elements of the model
SqueezedElements ==
  {Bytes(FieldBytes, {<<SqueezedBytePositions[i], f[i]>> :
                        i \in {j \in DOMAIN f : f[j] # 0}}) :
     f \in [DOMAIN SqueezedBytePositions -> SqueezedByteValues]}

InitChallenge ==
  /\ e \in {x \in ParamSets : x["A"].k = MinK /\ x["B"].k = MinK}
  /\ base_payload = BasePayload
  /\ chain = <<>>
  /\ built = None
  /\ tampered = 0
  /\ last = [NoCall EXCEPT !.v = ZeroBits(0)]

\* self.get_challenge(cs, transcript) when the transcript squeezes num
DoGetChallenge(num) ==
  /\ last.op = "none"
  /\ built' = Some(num)
  /\ last' = [NoCall EXCEPT !.op = "get_challenge", !.outcome = "ok",
                            !.v = GetChallenge(num)]
  /\ UNCHANGED <<e, base_payload, chain, tampered>>

NextChallenge == \E num \in SqueezedElements : DoGetChallenge(num)

SpecChallenge == InitChallenge /\ [][NextChallenge]_vars

\* ----------------------------- the final checks of verify_inner_product
\* what the prover may get wrong about one instance
Faults == {"none", "p negated", "p other", "v negated", "v other", "v with next b"}

\* the deferred values of the model: field i holds 40 + i
CountedDeferred(k) == [i \in 1..(16 + 2 * k) |-> 40 + i]

\* the folded commitments and openings of a prover whose instance at is
\* wrong in the way fault
FoldedPoints(a, g_new, bvals, at, fault) ==
  [p |-> [j \in 1..Instances |->
            LET good == ScalarMul(a[j], g_new)
            IN IF j # at THEN good
               ELSE CASE fault = "p negated" -> FSub(0, good)
                      [] fault = "p other" -> FAdd(good, 1)
                      [] OTHER -> good],
   v |-> [j \in 1..Instances |->
            LET good == ScalarMul(FMul(a[j], bvals[j]), GroupG)
            IN IF j # at THEN good
               ELSE CASE fault = "v negated" -> FSub(0, good)
                      [] fault = "v other" -> FAdd(good, 1)
                      [] fault = "v with next b" ->
                           ScalarMul(FMul(a[j], bvals[(j % Instances) + 1]), GroupG)
                      [] OTHER -> good]]

InitFinal ==
  /\ e \in {x \in ParamSets : x["A"].k = x["B"].k}
  /\ base_payload = BasePayload
  /\ chain = <<>>
  /\ built = None
  /\ tampered = 0
  /\ last = [NoCall EXCEPT !.v = FALSE]

\* the loop over the instances at the end of verify_inner_product, on the
\* b that verify_proof takes from the deferred bits
DoFinalChecks(bc, a1, g_new, at, fault) ==
  /\ last.op = "none"
  /\ LET k == E2(1).k
         new_deferred == BitsOfBytes(DeferredToBytes(CountedDeferred(k)))
         b == VerifyProofB(k, new_deferred)
         a == [j \in 1..Instances |-> a1 + j]
         unpacked == VerifyDeferredUnpack(new_deferred, k)
         bvals == [j \in 1..Instances |-> unpacked.values[10 + 2 * k + j + 1]]
         folded == FoldedPoints(a, g_new, bvals, at, fault)
     IN /\ built' = Some([k |-> k, bc |-> bc, a |-> a, g_new |-> g_new,
                          p |-> folded.p, v |-> folded.v,
                          b_names |-> [j \in 1..Instances |->
                                         unpacked.names[10 + 2 * k + j + 1][1]],
                          b_values |-> bvals, at |-> at, fault |-> fault])
        /\ last' = [NoCall EXCEPT !.op = "verify_inner_product", !.outcome = "ok",
                                  !.v = FinalChecks(bc, folded.p, folded.v, a, g_new, b)]
  /\ UNCHANGED <<e, base_payload, chain, tampered>>

NextFinal ==
  \E bc \in {0, 1}, a1 \in {1, 5}, g_new \in {2, 3}, at \in 1..Instances,
     fault \in Faults : DoFinalChecks(bc, a1, g_new, at, fault)

SpecFinal == InitFinal /\ [][NextFinal]_vars

\* --------------------- the old challenges and y_old against the prior proof
\* bits with those of a set of positions inverted
FlipBits(bits, at) == Bits(bits.len, (bits.ones \ at) \cup (at \ bits.ones))

\* position (from 1) of bit b of field f, both from 0
BitOfField(f, b) == FieldBits * f + b + 1

\* the bits of the deferred input that an assignment may give another
\* value: in y_old, in the first and the last old challenge, in gx_old
\* after them, and in x
DeferredFlips(k) ==
  {{}, {BitOfField(1, 0)}, {BitOfField(1, FieldBits - 1)}, {BitOfField(10, 0)},
   {BitOfField(9 + k, FieldBits - 1)}, {BitOfField(10 + k, 0)}, {BitOfField(0, 5)}}

\* the same for the bits of the prior accumulator: in y_new, in its first
\* and last challenge, in g_new.y and in s_new_commitment.y
OldLeftoversFlips(k) ==
  {{}, {BitOfField(2, 0)}, {BitOfField(2, FieldBits - 1)}, {BitOfField(5, 0)},
   {BitOfField(4 + k, FieldBits - 1)}, {BitOfField(4, FieldBits - 1)},
   {BitOfField(1, 3)}}

\* the accumulator whose y_new and challenges are the y_old and the old
\* challenges of the deferred values d
LeftoversBefore(d, k) == <<1, 2, d[2], 3, 4>> \o [i \in 1..k |-> d[10 + i]]

InitOldFields ==
  /\ e \in {x \in ParamSets : x["A"].k = x["B"].k}
  /\ base_payload = BasePayload
  /\ chain = <<>>
  /\ built = None
  /\ tampered = 0
  /\ last = [NoCall EXCEPT !.v = <<>>]

\* the two comparisons that end synthesize, on a circuit with or without
\* an embedded proof and an assignment of its deferred and old_leftovers1
\* bits
SynthesizeOldFields(bc, has_proof, dflip, oflip) ==
  /\ last.op = "none"
  /\ LET k == E2(1).k
         d == CountedDeferred(k)
         old == RecursiveProof(<<>>, LeftoversBefore(d, k), LeftoversDummy(E1(1)),
                               DeferredDummy(k), FullPayload(7))
         circ == VerificationCircuit(E2(1), Some(bc = 1),
                                     IF has_proof THEN Some(old) ELSE None,
                                     FullPayload(255), Some(LeftoversDummy(E1(1))),
                                     Some(LeftoversDummy(E2(1))), Some(d))
         deferred == FlipBits(SynthDeferred(circ), dflip)
         old_leftovers1 == FlipBits(SynthOldLeftovers1(circ), oflip)
         r == OldFieldsChecks(bc, k, deferred, old_leftovers1)
     IN /\ built' = Some([k |-> k, bc |-> bc, has_proof |-> has_proof,
                          deferred |-> deferred, old_leftovers1 |-> old_leftovers1])
        /\ last' = [NoCall EXCEPT !.op = "synthesize", !.outcome = r.outcome,
                                  !.v = r.lens]
  /\ UNCHANGED <<e, base_payload, chain, tampered>>

NextOldFields ==
  \E bc \in {0, 1}, has_proof \in BOOLEAN, dflip \in DeferredFlips(E2(1).k),
     oflip \in OldLeftoversFlips(E2(1).k) :
        SynthesizeOldFields(bc, has_proof, dflip, oflip)

SpecOldFields == InitOldFields /\ [][NextOldFields]_vars

\* ------------------------------------------- the powers of verify_deferred
\* nonzero values of the challenges x and y_cur
NonzeroSamples == {1, 2, 3, 5, 7, 100, 12345, FieldModulus - 1}

InitPowers ==
  /\ e \in ParamSets
  /\ base_payload = BasePayload
  /\ chain = <<>>
  /\ built = None
  /\ tampered = 0
  /\ last = [NoCall EXCEPT !.v = <<>>]

\* the chains of verify_deferred on x and y_cur
DoPowers(x, y_cur) ==
  /\ last.op = "none"
  /\ built' = Some([k |-> E2(1).k, x |-> x, y_cur |-> y_cur])
  /\ last' = [NoCall EXCEPT !.op = "verify_deferred", !.outcome = "ok",
                            !.v = VerifyDeferredPowers(E2(1).k, x, y_cur)]
  /\ UNCHANGED <<e, base_payload, chain, tampered>>

NextPowers == \E x \in NonzeroSamples, y_cur \in NonzeroSamples : DoPowers(x, y_cur)

SpecPowers == InitPowers /\ [][NextPowers]_vars

\* ------------------------------- the upper halves of the challenge fields
\* the bits of a field that an assignment may set: the top bit of its
\* lower half, and the first and the last bit of its upper half
HalfBits == {ChallengeBits - 1, ChallengeBits, FieldBits - 1}

InitZeroed ==
  /\ e \in {x \in ParamSets : x["A"].k = x["B"].k}
  /\ base_payload = BasePayload
  /\ chain = <<>>
  /\ built = None
  /\ tampered = 0
  /\ last = [NoCall EXCEPT !.v = FALSE]

\* the enforce_zero calls of verify_proof on an assignment of the bits of
\* new_leftovers and new_deferred in which the bits lset and dset are 1
SynthesizeZeroed(bc, lset, dset) ==
  /\ last.op = "none"
  /\ LET k == E2(1).k
         new_leftovers == Bits(FieldBits * (5 + k), lset)
         new_deferred == Bits(FieldBits * (16 + 2 * k), dset)
         zeroed == VerifyProofZeroed(k, new_deferred, new_leftovers)
     IN /\ built' = Some([k |-> k, bc |-> bc, new_leftovers |-> new_leftovers,
                          new_deferred |-> new_deferred])
        /\ last' = [NoCall EXCEPT !.op = "verify_proof",
                                  !.outcome = IF zeroed THEN "sat" ELSE "unsat",
                                  !.v = zeroed]
  /\ UNCHANGED <<e, base_payload, chain, tampered>>

NextZeroed ==
  \/ \E bc \in {0, 1}, f \in 0..(4 + E2(1).k), b \in HalfBits :
        SynthesizeZeroed(bc, {BitOfField(f, b)}, {})
  \/ \E bc \in {0, 1}, f \in 0..(15 + 2 * E2(1).k), b \in HalfBits :
        SynthesizeZeroed(bc, {}, {BitOfField(f, b)})
  \/ \E bc \in {0, 1} : SynthesizeZeroed(bc, {}, {})

SpecZeroed == InitZeroed /\ [][NextZeroed]_vars

\* ------------------------------------------------ parameters of small k
InitSmallK ==
  /\ e \in {x \in ParamSets : x["A"].k = MinK /\ x["B"].k = MinK}
  /\ base_payload = BasePayload
  /\ chain = <<>>
  /\ built = None
  /\ tampered = 0
  /\ last = [NoCall EXCEPT !.v = <<>>]

\* verify_deferred under parameters of k, from 0 on, in a build
DoVerifyDeferredOfK(k, build) ==
  /\ last.op = "none"
  /\ built' = Some([k |-> k, build |-> build])
  /\ LET r == VerifyDeferredRounds(k, build)
     IN last' = [NoCall EXCEPT !.op = "verify_deferred", !.outcome = r.outcome,
                               !.v = r]
  /\ UNCHANGED <<e, base_payload, chain, tampered>>

\* compute_b on the vector of the k challenges, k from 0 on
DoComputeBOfK(x, challenges) ==
  /\ last.op = "none"
  /\ built' = Some([k |-> Len(challenges), x |-> x, challenges |-> challenges])
  /\ LET r == ComputeBAsserted(x, challenges, InvertAll(challenges))
     IN last' = [NoCall EXCEPT !.op = "compute_b", !.outcome = r.outcome, !.v = r]
  /\ UNCHANGED <<e, base_payload, chain, tampered>>

NextSmallK ==
  \/ \E k \in 0..MaxK, build \in Builds : DoVerifyDeferredOfK(k, build)
  \/ \E x \in PointSamples, challenges \in ChallengeVectors \cup {<<>>} :
        DoComputeBOfK(x, challenges)

SpecSmallK == InitSmallK /\ [][NextSmallK]_vars

\* ------------------------------------------------- compute_thing alone
\* the field elements compute_thing is applied to
ThingSamples == (0..40) \cup {12345, FieldModulus - 2, FieldModulus - 1}

InitThing ==
  /\ e \in {x \in ParamSets : x["A"].k = MinK /\ x["B"].k = MinK}
  /\ base_payload = BasePayload
  /\ chain = <<>>
  /\ built = None
  /\ tampered = 0
  /\ last = [NoCall EXCEPT !.v = <<>>]

\* compute_thing(cs, x, m)
DoComputeThing(x, m) ==
  /\ last.op = "none"
  /\ built' = Some([x |-> x, m |-> m])
  /\ last' = [NoCall EXCEPT !.op = "compute_thing", !.outcome = "ok",
                            !.v = ComputeThing(x, m)]
  /\ UNCHANGED <<e, base_payload, chain, tampered>>

NextThing == \E x \in ThingSamples, m \in 0..MaxK : DoComputeThing(x, m)

SpecThing == InitThing /\ [][NextThing]_vars

\* ------------------------------------------------------------ properties

C2_VerifyIsConjunction ==
  (last.op = "verify" /\ last.outcome = "ok") =>
    LET n == last.idx
        vi == last.v.vi
    IN last.v.result = (/\ vi.worked
                        /\ DeferredVerify(chain[n].deferred, E2(n).k)
                        /\ DeferredVerify(vi.deferred, E1(n).k)
                        /\ LeftoversVerify(vi.a, E1(n))
                        /\ LeftoversVerify(vi.b, E2(n)))

C2_Witness ==
  /\ last.op = "verify" /\ last.outcome = "ok"
  /\ ~last.v.vi.worked
  /\ DeferredVerify(chain[last.idx].deferred, E2(last.idx).k)
  /\ DeferredVerify(last.v.vi.deferred, E1(last.idx).k)
  /\ LeftoversVerify(last.v.vi.a, E1(last.idx))
  /\ LeftoversVerify(last.v.vi.b, E2(last.idx))
  /\ ~last.v.result

\* C3, as stated: verify_inner returns the flag (wrapped proof verifies
\* against self.oldproof1, the curve-1 parameters, the bit inputs and the
\* k-commitment) AND (self.oldproof2 verifies against the curve-2
\* parameters), the deferred data that verification produced, and two
\* accumulators that are both freshly produced by the call.
C3_BothAccumulatorsFresh ==
  (last.op = "verify_inner" /\ last.outcome = "ok") =>
    LET n == last.idx
        P == chain[n]
        e1 == [E1(n) EXCEPT !.ngens = last.ngens]
        e2 == [E2(n) EXCEPT !.ngens = last.ngens]
        shape == SynthShape(VerificationCircuit(e2, None, None, P.payload,
                                                None, None, None), base_payload)
        pv == ProofVerify(P.proof, P.oldproof1, e1, shape, last.v.vi.bitinputs,
                          last.v.vi.k_commitment)
        vi == last.v.vi
    IN /\ vi.worked = (pv.worked /\ LeftoversVerify(P.oldproof2, e2))
       /\ vi.deferred = pv.deferred
       /\ vi.a = pv.leftovers
       /\ vi.b \in {pv.leftovers}

\* C3, amended: the flag and the deferred data are as stated; the first
\* accumulator is the one the verification of the wrapped proof produced,
\* the second is a copy of self.oldproof2.
C3_VerifyInnerReturn ==
  (last.op = "verify_inner" /\ last.outcome = "ok") =>
    LET n == last.idx
        P == chain[n]
        e1 == [E1(n) EXCEPT !.ngens = last.ngens]
        e2 == [E2(n) EXCEPT !.ngens = last.ngens]
        shape == SynthShape(VerificationCircuit(e2, None, None, P.payload,
                                                None, None, None), base_payload)
        pv == ProofVerify(P.proof, P.oldproof1, e1, shape, last.v.vi.bitinputs,
                          last.v.vi.k_commitment)
        vi == last.v.vi
    IN /\ vi.worked = (pv.worked /\ LeftoversVerify(P.oldproof2, e2))
       /\ vi.deferred = pv.deferred
       /\ vi.a = pv.leftovers
       /\ vi.b = P.oldproof2

C3_Witness ==
  /\ last.op = "verify_inner" /\ last.outcome = "ok"
  /\ last.idx >= 2
  /\ LeftoversVerify(chain[last.idx].oldproof2, E2(last.idx))
  /\ ~last.v.vi.worked
  /\ last.v.vi.b = chain[last.idx].oldproof2
  /\ last.v.vi.b # last.v.vi.a

\* C4: verify_inner derives the public inputs as payload bytes, then
\* oldproof1.to_bytes(), oldproof2.to_bytes(), deferred.to_bytes(), read as
\* bits least-significant bit first within each byte; bit i becomes the
\* scalar one or zero at place i of the input vector, and the k-commitment
\* is generators[1] plus generators[i + 2] for exactly the i whose bit is 1.
C4_PublicInputDerivation ==
  (last.op = "verify_inner" /\ last.outcome = "ok") =>
    LET P == chain[last.idx]
        fields == P.oldproof1 \o P.oldproof2 \o P.deferred
        lp == Len(P.payload)
        nbits == 8 * (lp + FieldBytes * Len(fields))
        byte(j) == IF j < lp THEN P.payload[j + 1]
                   ELSE LET f == fields[((j - lp) \div FieldBytes) + 1]
                            b == (j - lp) % FieldBytes
                        IN IF b < 3 THEN (f \div (256 ^ b)) % 256 ELSE 0
        bit(i) == (byte(i \div 8) \div (2 ^ (i % 8))) % 2
        vi == last.v.vi
    IN /\ vi.bitinputs.len = nbits
       /\ \A i \in 0..(nbits - 1) : BitAt(vi.bitinputs, i + 1) = bit(i)
       /\ vi.k_commitment = {1} \cup {i + 2 : i \in {j \in 0..(nbits - 1) : bit(j) = 1}}

C4_Witness ==
  /\ last.op = "verify_inner" /\ last.outcome = "ok"
  /\ chain[last.idx].payload # <<>>
  /\ \E n \in last.v.vi.bitinputs.ones :
        n > 9 /\ (n - 1) \notin last.v.vi.bitinputs.ones /\ (n + 1) \in last.v.vi.k_commitment

\* C5: verify_inner never panics, whatever the payload length and the
\* length of the generator vector: it returns Ok(flag) or Err.
C5_VerifyInnerNeverPanics ==
  last.op = "verify_inner" => last.outcome # "panic"

\* C6: for every proof P returned by create_proof, the public-input bits
\* synthesize allocated while P was proved (new_payload, old_leftovers,
\* new_leftovers, deferred) equal, in length and bit for bit, the bit
\* inputs P.verify_inner derives from P.payload, P.oldproof1, P.oldproof2
\* and P.deferred.
C6_ProverInputsAreVerifierInputs ==
  (built.some /\ tampered = 0) =>
    LET P == chain[Len(chain)]
        alloc == SynthInputs(built.v)
        host == HostBitInputs(P)
    IN /\ alloc.len = host.len
       /\ \A i \in alloc.ones \cup host.ones : BitAt(alloc, i) = BitAt(host, i)

C6_Witness ==
  /\ built.some /\ tampered = 0 /\ Len(chain) >= 2
  /\ last.op = "verify_inner" /\ last.outcome = "ok"
  /\ SynthInputs(built.v) = last.v.vi.bitinputs
  /\ SynthLeftovers1(built.v) # SynthLeftovers2(built.v)

\* C7: in the recursive case the in-circuit k-commitment is the one
\* old.verify_inner derives on the host: the in-circuit bit sequence
\* (old.payload, old.oldproof1, the old_leftovers witness, old.deferred)
\* equals the host bit sequence (old.payload, old.oldproof1, old.oldproof2,
\* old.deferred), both start from generator 1 and pair bit i with generator
\* i + 2, and the two commitments are the same.
C7_KCommitmentInCircuitIsHost ==
  (built.some /\ built.v.proof.some) =>
    LET old == built.v.proof.v
        host == BitsOfBytes(HostInputBytes(old))
        incircuit == SynthBitsForKCommitment(built.v, base_payload)
    IN /\ incircuit = host
       /\ SynthKCommitment(built.v, base_payload)
            = HostKCommitment(host, built.v.params.ngens)
       /\ (last.op = "create_proof" /\ last.outcome = "ok")
            => SynthKCommitment(built.v, base_payload) = last.v.vi.k_commitment

C7_Witness ==
  /\ built.some /\ built.v.proof.some
  /\ last.op = "create_proof" /\ last.outcome = "ok"
  /\ built.v.proof.v.oldproof1 # built.v.proof.v.oldproof2
  /\ Cardinality(last.v.vi.k_commitment) > 3
  /\ SynthKCommitment(built.v, base_payload) = last.v.vi.k_commitment

\* C8: the accumulator passed to the verification of the wrapped proof of P
\* is P.oldproof1, and for every Q = create_proof(Some(P)): Q.oldproof1 is
\* P.oldproof2, Q.oldproof2 is the accumulator the verification of P's
\* wrapped proof produced, and Q.deferred the deferred data it produced.
C8_AccumulatorChain ==
  /\ (last.op \in {"verify_inner", "verify"} /\ last.outcome = "ok")
       => last.v.vi.acc = chain[last.idx].oldproof1
  /\ \A i \in 2..Len(chain) :
       (tampered # i) =>
         LET P == chain[i - 1]
             Q == chain[i]
             shape == SynthShape(VerificationCircuit(E2(i - 1), None, None, P.payload,
                                                     None, None, None), base_payload)
             bits == BitsOfBytes(HostInputBytes(P))
             pv == ProofVerify(P.proof, P.oldproof1, E1(i - 1), shape,
                               HostBitInputs(P), HostKCommitment(bits, E1(i - 1).ngens))
         IN /\ Q.oldproof1 = P.oldproof2
            /\ Q.oldproof2 = pv.leftovers
            /\ Q.deferred = pv.deferred
            /\ Q.proof.acc = Q.oldproof1

C8_Witness ==
  /\ Len(chain) = MaxChain /\ tampered = 0
  /\ last.op = "verify" /\ last.outcome = "ok"
  /\ last.v.vi.acc = chain[MaxChain].oldproof1
  /\ chain[MaxChain].oldproof1 = chain[MaxChain - 1].oldproof2
  /\ chain[MaxChain].oldproof1 # chain[MaxChain].oldproof2

\* C9: create_proof with old_proof = None builds the circuit with base_case
\* = true, no embedded proof and dummy deferred values and accumulators
\* sized for k, and the old-payload bits it embeds are base_payload();
\* with old_proof = Some(p) it builds the circuit with base_case = false
\* and proof = p.  In every circuit it builds, base_case is true if and
\* only if proof is absent.
C9_BaseCaseIffNoProof ==
  built.some =>
    LET n == Len(chain)
        c == built.v
    IN /\ c.base_case.some
       /\ c.base_case.v <=> ~c.proof.some
       /\ n = 1 =>
            /\ c.base_case = Some(TRUE)
            /\ c.proof = None
            /\ c.deferred = Some(DeferredDummy(E2(1).k))
            /\ c.new_leftovers = Some(LeftoversDummy(E2(1)))
            /\ c.old_leftovers = Some(LeftoversDummy(E1(1)))
            /\ SynthOldPayload(c, base_payload) = base_payload
       /\ n > 1 =>
            /\ c.base_case = Some(FALSE)
            /\ c.proof = Some(chain[n - 1])

C9_Witness ==
  /\ built.some /\ Len(chain) = 1
  /\ built.v.base_case = Some(TRUE) /\ built.v.proof = None
  /\ SynthOldPayload(built.v, base_payload) = base_payload
  /\ base_payload.ones # {}

C11_GenesisIgnoresDummies ==
  (last.op = "synthesize" /\ built.v.base_case) => last.outcome = "sat"

\* C11, amended: with base_case = 1 every comparison made through
\* equal_unless_base_case is satisfied whatever bits the dummy values hold,
\* and the circuit is satisfied only when the dummy values also meet the
\* constraints base_case does not gate: the upper 128 bits of the challenge
\* fields are 0 and the old deferred values pass verify_deferred.
C11_GatedEqualitiesIgnoreDummies ==
  (last.op = "synthesize" /\ built.v.base_case) =>
     LET c == built.v
     IN /\ VerifyProofGated(1, c.k, c.derived, c.new_deferred, c.new_leftovers)
        /\ last.v.gated
        /\ (last.outcome = "sat") =>
              (VerifyProofZeroed(c.k, c.new_deferred, c.new_leftovers)
                 /\ DeferredVerify(c.old_deferred, c.k))

\* a satisfied base-case circuit whose dummy accumulator differs from the
\* derived values in a gated bit
C11_Witness ==
  /\ last.op = "synthesize"
  /\ built.v.base_case
  /\ last.outcome = "sat"
  /\ 1 \in built.v.new_leftovers.ones
  /\ built.v.derived.sx.ones = {}
  /\ ChallengeBits \notin built.v.new_deferred.ones

\* C12: the constraints equal_unless_base_case and
\* num_equal_unless_base_case emit can be satisfied exactly when base_case
\* is 1 or lhs equals rhs, bit for bit or as field elements; the first
\* emits one multiplication gate for each pair of bits, the second one gate.
C12_EqualUnlessBaseCase ==
  /\ (last.op = "equal_unless_base_case" /\ last.outcome # "panic") =>
        /\ (last.outcome = "sat") <=>
              (built.v.base_case = 1 \/ built.v.lhs = built.v.rhs)
        /\ last.v = Len(built.v.lhs)
  /\ last.op = "num_equal_unless_base_case" =>
        /\ (last.outcome = "sat") <=>
              (built.v.base_case = 1 \/ built.v.lhs = built.v.rhs)
        /\ last.v = 1

\* bit vectors that differ in one pair, compared under base_case = 1
C12_Witness ==
  /\ last.op = "equal_unless_base_case"
  /\ last.outcome = "sat"
  /\ built.v.base_case = 1
  /\ Len(built.v.lhs) = MaxBits
  /\ Len(built.v.rhs) = MaxBits
  /\ built.v.lhs # built.v.rhs
  /\ last.v = MaxBits

\* C13: once a byte of the payload, of either accumulator or of the
\* deferred values of the last proof of a chain of two or more proofs has
\* been changed, verify on that proof returns Ok(false).
C13_TamperSensitivity ==
  (last.op = "verify" /\ tampered = Len(chain) /\ Len(chain) >= 2) =>
     (last.outcome = "ok" /\ ~last.v.result)

\* verify has run on the tampered last proof of a chain of MaxChain proofs
\* whose embedded proof and accumulators are still accepted one by one
C13_Witness ==
  /\ last.op = "verify"
  /\ tampered = Len(chain)
  /\ Len(chain) = MaxChain
  /\ last.outcome = "ok"
  /\ last.v.d1 /\ last.v.av /\ last.v.bv
  /\ ~last.v.result

\* C14: compute_b(x; c_1..c_m) is (c_m^-1 + c_m * x) *
\* compute_b(x^2; c_1..c_(m-1)), and c_1^-1 + c_1 * x for m = 1; it makes m
\* calls and squares x m - 1 times.
C14_ComputeBRecursion ==
  last.op = "compute_b" =>
     LET x == built.v.x
         c == built.v.challenges
         m == Len(c)
         head == FAdd(FInv(c[m]), FMul(c[m], x))
     IN /\ last.v.value =
             IF m = 1 THEN head
             ELSE FMul(head, ComputeB(FMul(x, x), SubSeq(c, 1, m - 1),
                                      InvertAll(SubSeq(c, 1, m - 1))).value)
        /\ last.v.calls = m
        /\ last.v.squarings = m - 1

\* compute_b on MaxK challenges that are not all the same, at a point
\* whose square is another point
C14_Witness ==
  /\ last.op = "compute_b"
  /\ Len(built.v.challenges) = MaxK
  /\ built.v.challenges[1] # built.v.challenges[MaxK]
  /\ built.v.x = 2
  /\ last.v.calls = MaxK

\* C15, as stated, with c_i the challenges in the order of the vector and i
\* counted from 0: compute_b is the product of c_i^-1 + c_i * x^(2^i).
C15_ProductForm ==
  last.op = "compute_b" =>
     last.v.value = ProductForm(built.v.x, built.v.challenges, FALSE)

\* C15, amended: compute_b on c_1..c_m is the product over j of
\* c_j^-1 + c_j * x^(2^(m-j)): the last challenge meets x, the first
\* x^(2^(m-1)).
C15_ProductFormFromLast ==
  last.op = "compute_b" =>
     last.v.value = ProductForm(built.v.x, built.v.challenges, TRUE)

\* compute_b on MaxK challenges whose first and last differ, at a point
\* that is not its own square
C15_Witness ==
  /\ last.op = "compute_b"
  /\ Len(built.v.challenges) = MaxK
  /\ built.v.challenges[1] = 2
  /\ built.v.challenges[MaxK] = 3
  /\ built.v.x = 3

\* C16: a field element encoded to its 32 bytes, unpacked to 256 bits from
\* the lowest bit of each byte and summed by obtain_scalar_from_bits, is
\* the same field element.
C16_ByteRoundTrip ==
  last.op = "obtain_scalar_from_bits" =>
     /\ last.outcome = "ok"
     /\ built.v.bytes.len = FieldBytes
     /\ built.v.bits.len = FieldBits
     /\ last.v = built.v.value

\* the round trip of modulus - 1, whose encoding fills more than one byte
C16_Witness ==
  /\ last.op = "obtain_scalar_from_bits"
  /\ built.v.value = FieldModulus - 1
  /\ \E x \in built.v.bytes.nz : x[1] = 2
  /\ last.v = FieldModulus - 1

C18_AbsentNeverDefaulted ==
  /\ last.op = "synthesize" =>
        \A i \in DOMAIN last.v :
           ~last.v[i].present => last.v[i].result = "AssignmentMissing"
  /\ (last.op = "obtain_scalar_from_bits" /\ built.v.missing # {}) =>
        last.outcome = "AssignmentMissing"

\* C18, amended: only an absent base_case ends the synthesis with
\* AssignmentMissing.  Absent accumulators and deferred values are
\* allocated as false bits, an absent proof gives the base payload, false
\* accumulator bits, the dummy deferred values and zero points, and
\* obtain_scalar_from_bits counts a bit without a value as 0.
C18_OnlyBaseCaseIsMissing ==
  /\ last.op = "synthesize" =>
        /\ \A i \in DOMAIN last.v :
              LET en == last.v[i]
              IN /\ (en.result = "AssignmentMissing") <=>
                       (en.what = "base_case" /\ ~built.v.base_case.some)
                 /\ (~en.present /\ en.what = "public inputs") => en.result = "false"
                 /\ (~en.present /\ en.what = "old_payload") => en.result = "base_payload"
                 /\ (~en.present /\ en.what = "old_leftovers1") => en.result = "false"
                 /\ (~en.present /\ en.what = "old_deferred") => en.result = "dummy"
                 /\ (~en.present /\ en.what = "verify_proof") => en.result = "zero"
        /\ (last.outcome = "AssignmentMissing") =>
              (~built.v.base_case.some /\ Len(last.v) = 3)
        /\ (last.outcome = "ok") => built.v.base_case.some
  /\ last.op = "obtain_scalar_from_bits" =>
        /\ last.outcome = "ok"
        /\ last.v = SumOfPowers(built.v.ones \ built.v.missing, 0)

\* a synthesis that ended with Ok(()) though the circuit held no proof and
\* no accumulators
C18_Witness ==
  /\ last.op = "synthesize"
  /\ last.outcome = "ok"
  /\ ~built.v.proof.some
  /\ ~built.v.old_leftovers.some
  /\ built.v.base_case.some
  /\ built.v.base_case.v
  /\ \E i \in DOMAIN last.v : last.v[i].what = "verify_proof" /\ last.v[i].result = "zero"

\* C19: verify_deferred accepts exactly the buffers of 16 + 2k fields of
\* 256 bits and consumes them in the order x, y_old, y_cur, y_new, ky,
\* tx_positive, tx_negative, sx_cur, rx, rxy, k old challenges, gx_old, k
\* new challenges, b_x, b_xy, b_y_old, b_y_cur, b_y_new; every field
\* index that verify_proof and synthesize use holds the value that
\* verify_deferred unpacks under the same name.
C19_DeferredLayout ==
  last.op = "verify_deferred" =>
     LET k == built.v.k
         bits == built.v.bits
     IN /\ (last.outcome = "ok") <=> (bits.len = FieldBits * (16 + 2 * k))
        /\ Len(built.v.names) = 16 + 2 * k
        /\ last.outcome = "ok" =>
              /\ Len(last.v) = 16 + 2 * k
              /\ \A u \in DeferredFieldsUsed(k) :
                    /\ built.v.names[u[2] + 1] = u[1]
                    /\ FieldOfBits(bits, u[2]) = last.v[u[2] + 1]
              /\ \A n \in DOMAIN last.v : \A m \in DOMAIN last.v :
                    n # m => last.v[n] # last.v[m]

\* verify_deferred has unpacked a buffer of 16 + 2 MaxK fields whose last
\* new challenge is field 10 + 2 MaxK
C19_Witness ==
  /\ last.op = "verify_deferred"
  /\ last.outcome = "ok"
  /\ built.v.k = MaxK
  /\ built.v.names[11 + 2 * MaxK] = <<"challenges_new", MaxK - 1>>
  /\ last.v[11 + 2 * MaxK] = MaxSeed + 300 * (11 + 2 * MaxK)

\* the stages of a synthesis that emit constraints, and the inner circuit
Emitting(entry) == entry.cons > 0 \/ entry.what = "inner circuit"

\* the place of a step of section 4.4 in the code of synthesize: the base
\* payload gate is emitted before the additions of the k-commitment
CodeRank(step) == CASE step = 3 -> 4 [] step = 4 -> 3 [] OTHER -> step

\* C20 as stated: synthesize performs its steps in the order 1 to 8, no
\* constraint of a later step is emitted before a constraint of an
\* earlier step.
C20_StepOrder ==
  last.op = "synthesize" =>
     \A i \in DOMAIN last.v : \A j \in DOMAIN last.v :
        (i < j /\ Emitting(last.v[i]) /\ Emitting(last.v[j]))
           => last.v[i].step <= last.v[j].step

\* C20, amended: synthesize emits its constraints in the order of the
\* steps 1, 4, 3, 5, 6, 7, 8: the base payload gate comes before the
\* additions of the k-commitment, and otherwise no constraint of a later
\* step is emitted before a constraint of an earlier step; the stages up
\* to the base_case allocation are those of steps 1 and 2 and the inner
\* circuit is synthesized last.
C20_StepOrderOfCode ==
  last.op = "synthesize" =>
     /\ \A i \in DOMAIN last.v : \A j \in DOMAIN last.v :
           (i < j /\ Emitting(last.v[i]) /\ Emitting(last.v[j]))
              => CodeRank(last.v[i].step) <= CodeRank(last.v[j].step)
     /\ \A i \in DOMAIN last.v :
           /\ last.v[i].step = 1 => i <= 2
           /\ last.v[i].step = 2 <=> i = 3
           /\ last.v[i].step = 8 => (i = Len(last.v) /\ last.outcome = "ok")
     /\ last.outcome = "ok" => last.v[Len(last.v)].step = 8

\* a synthesis has ended with Ok(()) after a base payload gate that
\* emitted constraints and, later, additions of the k-commitment that
\* emitted constraints
C20_Witness ==
  /\ last.op = "synthesize"
  /\ last.outcome = "ok"
  /\ \E i \in DOMAIN last.v : \E j \in DOMAIN last.v :
        /\ i < j
        /\ last.v[i].what = "base payload gate" /\ last.v[i].cons > 0
        /\ last.v[j].what = "k_commitment" /\ last.v[j].cons > 0
        /\ last.v[j].step = 3 /\ last.v[i].step = 4

\* the points as C21 lists them before the rounds, each with the number of
\* squeezes that precede it
ListedPoints ==
  << <<"k_commitment", 0>>, <<"r_commitment", 0>>, <<"s_cur_commitment", 1>>,
     <<"t_positive_commitment", 1>>, <<"t_negative_commitment", 1>>,
     <<"c_commitment", 2>>, <<"s_new_commitment", 3>>, <<"ky_opening_pt", 3>>,
     <<"rx_opening_pt", 3>>, <<"rxy_opening_pt", 3>>, <<"sx_old_opening_pt", 3>>,
     <<"sx_cur_opening_pt", 3>>, <<"tx_positive_opening_pt", 3>>,
     <<"tx_negative_opening_pt", 3>>, <<"sx_new_opening_pt", 3>>,
     <<"gx_old_opening_pt", 3>> >>

\* the challenges as C21 lists them before the rounds
ListedChallenges == <<"y_cur", "x", "y_new", "z">>

\* C21: the calls of verify_proof and verify_inner_product on the
\* transcript are one fixed sequence whatever the witness: the 16 listed
\* points with the squeezes of y_cur, x, y_new and z between them, then in
\* each of the k rounds L, R, l, r of the 5 instances in instance order
\* and the round challenge; every point is absorbed as x then y, there
\* are 4 + k squeezes, and a round's challenge is squeezed after its 20
\* points and before any folding of the round.
C21_TranscriptOrder ==
  last.op = "verify_proof" =>
     LET log == last.v
         k == built.v.k
         IsPoint(n) == log[n].op = "absorb" /\ log[n].coord = "x"
         PointsBefore(n) == Cardinality({m \in 1..(n - 1) : IsPoint(m)})
         SqueezesBefore(n) == Cardinality({m \in 1..(n - 1) : log[m].op = "squeeze"})
         RoundNames == <<"L", "R", "l", "r">>
         without == VerifyProofEvents(k, None, <<0, 0>>, <<0, 0>>)
     IN /\ \A n \in DOMAIN log :
              /\ log[n].op \in {"absorb", "squeeze", "fold"}
              /\ (log[n].op = "absorb" /\ log[n].coord = "y") =>
                    /\ n > 1
                    /\ IsPoint(n - 1)
                    /\ <<log[n - 1].what, log[n - 1].round, log[n - 1].inst>>
                          = <<log[n].what, log[n].round, log[n].inst>>
              /\ (IsPoint(n) /\ n < Len(log)) =>
                    log[n + 1].op = "absorb" /\ log[n + 1].coord = "y"
              /\ log[n].op = "absorb" => log[n].coord \in {"x", "y"}
              /\ IsPoint(n) =>
                    LET q == PointsBefore(n)
                    IN IF q < Len(ListedPoints)
                       THEN /\ log[n].what = ListedPoints[q + 1][1]
                            /\ SqueezesBefore(n) = ListedPoints[q + 1][2]
                       ELSE LET r == q - Len(ListedPoints)
                            IN /\ log[n].round = r \div 20
                               /\ log[n].round < k
                               /\ log[n].inst = (r % 20) \div 4
                               /\ log[n].what = RoundNames[(r % 4) + 1]
                               /\ SqueezesBefore(n) = 4 + log[n].round
              /\ log[n].op = "squeeze" =>
                    LET q == SqueezesBefore(n)
                    IN IF q < 4
                       THEN /\ log[n].what = ListedChallenges[q + 1]
                            /\ PointsBefore(n) = <<2, 5, 6, 16>>[q + 1]
                       ELSE /\ log[n].what = "round challenge"
                            /\ log[n].round = q - 4
                            /\ PointsBefore(n) = 16 + 20 * (q - 3)
                            /\ \A m \in 1..(n - 1) :
                                  ~(log[m].op = "fold" /\ log[m].round = q - 4)
              /\ log[n].op = "fold" =>
                    /\ SqueezesBefore(n) = 5 + log[n].round
                    /\ PointsBefore(n) = 16 + 20 * (log[n].round + 1)
              /\ [log[n] EXCEPT !.val = 0] = [without[n] EXCEPT !.val = 0]
        /\ last.outcome = "ok" =>
              /\ Cardinality({n \in DOMAIN log : log[n].op = "squeeze"}) = 4 + k
              /\ Cardinality({n \in DOMAIN log : IsPoint(n)}) = 16 + 20 * k
              /\ Cardinality({n \in DOMAIN log : log[n].op = "fold"}) = Instances * k
              /\ log[Len(log)].op = "fold"

\* verify_proof has ended on an embedded proof and on MaxK rounds, the
\* last round's challenge squeezed after nonzero witnessed points
C21_Witness ==
  /\ last.op = "verify_proof"
  /\ last.outcome = "ok"
  /\ built.v.k = MaxK
  /\ built.v.proof.some
  /\ \E n \in DOMAIN last.v :
        /\ last.v[n].op = "squeeze"
        /\ last.v[n].round = MaxK - 1
        /\ last.v[n].what = "round challenge"
        /\ last.v[n - 1].op = "absorb" /\ last.v[n - 1].val # 0

\* bit n (from 0) of a little-endian encoding
BitOfEncoding(num, n) ==
  LET byte == {x \in num.nz : x[1] = (n \div 8) + 1}
  IN IF byte = {} THEN 0 ELSE BitOfByte((CHOOSE x \in byte : TRUE)[2], n % 8)

\* C22: a challenge returned by get_challenge has exactly 128 bits; its
\* bits 0..126 are the low 127 bits of the squeezed field element and its
\* bit 127 is 1, so it lies in [2^127, 2^128) and is not zero.
C22_ChallengeShape ==
  last.op = "get_challenge" =>
     /\ last.v.len = ChallengeBits
     /\ last.v.ones \subseteq 1..ChallengeBits
     /\ ChallengeBits \in last.v.ones
     /\ \A n \in 0..(ChallengeBits - 2) :
           BitAt(last.v, n + 1) = BitOfEncoding(built.v, n)
     /\ last.v.ones # {}

\* a challenge from a squeezed element whose bits 127 and 126 are 0, whose
\* bit 120 is 1 and which has bits above bit 127
C22_Witness ==
  /\ last.op = "get_challenge"
  /\ BitOfEncoding(built.v, ChallengeBits - 1) = 0
  /\ BitOfEncoding(built.v, ChallengeBits - 2) = 0
  /\ BitOfEncoding(built.v, ChallengeBits - 8) = 1
  /\ BitOfEncoding(built.v, FieldBits - 1) = 1
  /\ BitAt(last.v, ChallengeBits) = 1

\* C23: after the rounds, with base_case = 0 the constraints hold exactly
\* when for each of the 5 instances j the folded commitment p[j] is
\* [a_j] g_new and the folded opening v[j] is [a_j * b_j] g, in both
\* coordinates; with base_case = 1 they hold whatever the points are; the
\* b_j are the deferred fields b_x, b_xy, b_y_old, b_y_cur, b_y_new for the
\* instances p, r, c, q, c in this order.
C23_FinalChecks ==
  last.op = "verify_inner_product" =>
     LET c == built.v
     IN /\ c.bc = 1 => last.v
        /\ c.bc = 0 =>
              (last.v <=>
                 \A j \in 1..Instances :
                    /\ c.p[j] = ScalarMul(c.a[j], c.g_new)
                    /\ c.v[j] = ScalarMul(FMul(c.a[j], c.b_values[j]), GroupG))
        /\ c.b_names = <<"b_x", "b_xy", "b_y_old", "b_y_cur", "b_y_new">>
        /\ Len(InstanceCommitments) = Instances
        /\ InstanceCommitments = <<"p", "r", "c", "q", "c">>

\* with base_case = 0 the checks have refused a folded commitment that is
\* the negative of [a_j] g_new, which has the x coordinate of [a_j] g_new
C23_Witness ==
  /\ last.op = "verify_inner_product"
  /\ built.v.bc = 0
  /\ built.v.fault = "p negated"
  /\ built.v.at = Instances
  /\ PointXY(built.v.p[Instances])[1]
        = PointXY(ScalarMul(built.v.a[Instances], built.v.g_new))[1]
  /\ ~last.v

\* C24: in a satisfying assignment with base_case = 0 the fields 10..9+k
\* of the deferred bits equal, in all their 256 bits, the k challenge
\* fields of the embedded prior accumulator (its bits from 256*5 on), and
\* field 1 of the deferred bits equals field 2 of the prior accumulator;
\* the compared ranges have the lengths 256*k and 256 on both sides.
C24_OldFieldsMatch ==
  last.op = "synthesize" =>
     LET c == built.v
         k == c.k
     IN /\ last.outcome # "panic"
        /\ last.v = <<FieldBits * k, FieldBits * k, FieldBits, FieldBits>>
        /\ (c.bc = 0 /\ last.outcome = "sat") =>
              /\ \A n \in 1..(FieldBits * k) :
                    BitAt(c.deferred, FieldBits * 10 + n)
                       = BitAt(c.old_leftovers1, FieldBits * 5 + n)
              /\ \A n \in 1..FieldBits :
                    BitAt(c.deferred, FieldBits + n)
                       = BitAt(c.old_leftovers1, FieldBits * 2 + n)
              /\ c.old_leftovers1.len = FieldBits * (5 + k)

\* with base_case = 0 the comparisons have accepted an assignment over an
\* embedded proof whose last old challenge and whose prior accumulator's
\* last challenge both have their highest bit set
C24_Witness ==
  /\ last.op = "synthesize"
  /\ built.v.bc = 0
  /\ built.v.has_proof
  /\ built.v.k = MaxK
  /\ BitAt(built.v.deferred, BitOfField(9 + MaxK, FieldBits - 1)) = 1
  /\ BitAt(built.v.old_leftovers1, BitOfField(4 + MaxK, FieldBits - 1)) = 1
  /\ last.outcome = "sat"

\* C25: with n = 2^(k-2) the chains of verify_deferred compute
\* xinvn = x^(-n), xinvd = x^(-4n), yn = y_cur^n, xn = x^n,
\* xyinvn31 = (x * y_cur)^(-(3n-1)) and xinvn31 = x^(-(3n-1)), for every
\* k >= 2 and all nonzero x and y_cur.
C25_Powers ==
  last.op = "verify_deferred" =>
     LET x == built.v.x
         y_cur == built.v.y_cur
         n == 2 ^ (built.v.k - 2)
         r == last.v
     IN /\ built.v.k >= 2
        /\ r.xinvn = FPow(FInv(x), n)
        /\ FMul(r.xinvn, FPow(x, n)) = 1
        /\ r.xinvd = FPow(FInv(x), 4 * n)
        /\ FMul(r.xinvd, FPow(x, 4 * n)) = 1
        /\ r.yn = FPow(y_cur, n)
        /\ r.xn = FPow(x, n)
        /\ r.xyinvn31 = FPow(FInv(FMul(x, y_cur)), 3 * n - 1)
        /\ FMul(r.xyinvn31, FPow(FMul(x, y_cur), 3 * n - 1)) = 1
        /\ r.xinvn31 = FPow(FInv(x), 3 * n - 1)
        /\ FMul(r.xinvn31, FPow(x, 3 * n - 1)) = 1

\* the chains have run for k = MaxK on an x and a y_cur that are not
\* roots of unity of a small order
C25_Witness ==
  /\ last.op = "verify_deferred"
  /\ built.v.k = MaxK
  /\ built.v.x = 3
  /\ built.v.y_cur = 5
  /\ last.v.xn # 1 /\ last.v.xn # 3
  /\ last.v.xinvd # last.v.xinvn

\* C26: create_proof does not act on the flag of old_proof.verify_inner:
\* when verify_inner returns, with the flag true or false, create_proof
\* builds the circuit with base_case = false from the deferred and the
\* accumulators returned, hands it to the prover and returns the
\* RecursiveProof made of them; it fails only when verify_inner or the
\* synthesis by the prover fails.
C26_FlagIgnored ==
  (last.op = "create_proof" /\ last.idx > 1) =>
     LET vi == last.v.vi
         n == last.idx
     IN /\ last.outcome = "ok" =>
              /\ vi.outcome = "ok"
              /\ built.v.base_case.some /\ ~built.v.base_case.v
              /\ built.v.proof.some /\ built.v.proof.v = chain[n - 1]
              /\ built.v.deferred.v = vi.deferred
              /\ built.v.new_leftovers.v = vi.a
              /\ built.v.old_leftovers.v = vi.b
              /\ Len(chain) = n
              /\ chain[n].deferred = vi.deferred
              /\ chain[n].oldproof1 = vi.b
              /\ chain[n].oldproof2 = vi.a
        /\ (last.outcome # "ok" /\ vi.outcome = "ok") =>
              /\ Len(chain) = n - 1
              /\ SynthPanics(
                    CreateCircuit(E2(n), Some(chain[n - 1]), <<>>,
                                  CreateWitnesses(E1(n), E2(n), Some(chain[n - 1]), vi)),
                    base_payload)

\* create_proof has returned a proof built over an old proof for which
\* verify_inner returned the flag false
C26_Witness ==
  /\ last.op = "create_proof" /\ last.outcome = "ok"
  /\ last.idx > 1
  /\ last.v.vi.outcome = "ok" /\ ~last.v.vi.worked
  /\ ~built.v.base_case.v
  /\ Len(chain) = last.idx

\* C27: in every assignment that satisfies the constraints of verify_proof,
\* with base_case 0 or 1, the upper 128 bits of the fields that carry a
\* challenge are 0: y_new (field 2) and the k challenges (fields 5..4+k)
\* of new_leftovers, and x, y_cur, y_new (fields 0, 2, 3) and the k new
\* challenges (fields 11+k..10+2k) of the new deferred bits; an
\* assignment with a 1 among those bits satisfies them for no base_case.
C27_UpperHalvesZero ==
  last.op = "verify_proof" =>
     LET c == built.v
         k == c.k
         Upper(bits, f) ==
           {n \in bits.ones : n > FieldBits * f + ChallengeBits /\ n <= FieldBits * (f + 1)}
         clean ==
           /\ Upper(c.new_leftovers, 2) = {}
           /\ \A i \in 0..(k - 1) : Upper(c.new_leftovers, 5 + i) = {}
           /\ Upper(c.new_deferred, 0) = {}
           /\ Upper(c.new_deferred, 2) = {}
           /\ Upper(c.new_deferred, 3) = {}
           /\ \A i \in 0..(k - 1) : Upper(c.new_deferred, 11 + k + i) = {}
     IN (last.outcome = "sat") => clean

\* in the base case the constraints have refused an assignment whose only
\* 1 bit is the highest bit of the field of y_new in new_leftovers
C27_Witness ==
  /\ last.op = "verify_proof"
  /\ built.v.bc = 1
  /\ built.v.new_leftovers.ones = {BitOfField(2, FieldBits - 1)}
  /\ built.v.new_deferred.ones = {}
  /\ last.outcome = "unsat"

\* C28: the sizes of the bit groups of synthesize come from the k of the
\* circuit's own parameters: the placeholders of old_leftovers and
\* new_leftovers have 256*(5+k) bits, that of deferred 256*(16+2k) bits,
\* and verify_deferred unpacks 16+2k fields; so the circuit create_proof
\* hands to the prover and the verifier's circuit allocate as many
\* old_leftovers bits, and verify_deferred consumes the deferred bits of
\* the prior proof without remainder, exactly when the parameter sets of
\* the two curves have the same k.
C28_SizesFromOwnK ==
  (last.op = "create_proof" /\ (last.idx = 1 \/ last.v.vi.outcome = "ok")) =>
     LET n == last.idx
         old == IF n = 1 THEN None ELSE Some(chain[n - 1])
         circ == IF last.outcome = "ok" THEN built.v
                 ELSE CreateCircuit(E2(n), old, <<>>,
                                    CreateWitnesses(E1(n), E2(n), old, last.v.vi))
         shape == ShapeCircuit(circ)
         k == circ.params.k
     IN /\ circ.params = E2(n)
        /\ SynthLeftovers1(shape).len = FieldBits * (5 + k)
        /\ SynthLeftovers2(shape).len = FieldBits * (5 + k)
        /\ SynthDeferred(shape).len = FieldBits * (16 + 2 * k)
        /\ Len(DeferredNames(k)) = 16 + 2 * k
        /\ (SynthLeftovers1(circ).len = SynthLeftovers1(shape).len)
              <=> (e["A"].k = e["B"].k)
        /\ circ.proof.some =>
              ((VerifyDeferredUnpack(SynthOldDeferred(circ), k).outcome = "ok")
                  <=> (e["A"].k = e["B"].k))

\* create_proof was called over a prior proof under parameter sets of
\* different k, and the deferred bits of the prior proof are not 16+2k
\* fields
C28_Witness ==
  /\ last.op = "create_proof"
  /\ last.idx = 2
  /\ last.v.vi.outcome = "ok"
  /\ e["A"].k # e["B"].k
  /\ Len(chain[1].deferred) # 16 + 2 * E2(2).k

\* C29: verify_deferred computes nk = k - 2 on an unsigned integer and is
\* defined only for k >= 2: for k = 0 and k = 1 the subtraction underflows,
\* which is a panic or a wrap to a loop bound of 2^64 - 2 or 2^64 - 1, and
\* the polynomial identity is not constrained; compute_b given the
\* challenges of k = 0, an empty vector, fails its assertion.
C29_SmallK ==
  /\ last.op = "verify_deferred" =>
        LET k == built.v.k
        IN /\ k >= 2 =>
                 /\ last.outcome = "ok"
                 /\ last.v.nk = ToUsize(k - 2)
                 /\ last.v.identity
           /\ k < 2 =>
                 /\ ~last.v.identity
                 /\ built.v.build = "checked" => last.outcome = "panic"
                 /\ built.v.build = "wrapping" =>
                       /\ last.outcome = "unbounded"
                       /\ last.v.nk = [UsizeMax EXCEPT ![1] = LimbBase - 2 + k]
  /\ last.op = "compute_b" => ((last.outcome = "panic") <=> (built.v.k = 0))

\* verify_deferred has met k = 1 in a build that wraps: nk is 2^64 - 1
C29_Witness ==
  /\ last.op = "verify_deferred"
  /\ built.v.k = 1
  /\ built.v.build = "wrapping"
  /\ last.v.nk = UsizeMax
  /\ last.outcome = "unbounded"

\* C30: compute_thing(x, m) returns x + x^2 + ... + x^(2^m), the sum of the
\* first 2^m positive powers of x, for every field element x and every
\* m >= 0, in m iterations of one multiplication of the accumulator and
\* one squaring each.
C30_SumOfPowers ==
  last.op = "compute_thing" =>
     LET x == built.v.x
         m == built.v.m
     IN /\ last.v.value = SumSeq([j \in 1..(2 ^ m) |-> FPow(x, j)]) % FieldModulus
        /\ last.v.muls = m
        /\ last.v.squarings = m

\* compute_thing has summed the first 2^MaxK powers of 3
C30_Witness ==
  /\ last.op = "compute_thing"
  /\ built.v.x = 3
  /\ built.v.m = MaxK
  /\ last.v.muls = MaxK
  /\ last.v.value # 3

====
